---- MODULE Spec2Model ----
(***************************************************************************)
(* Cross-exchange price aggregator: exchange polling, adapter health,      *)
(* symbol splitting, the symbol resolver and the VWAP calculator.          *)
(*                                                                         *)
(* Decimal values (shopspring/decimal) are modelled exactly.  Prices and   *)
(* volumes are whole numbers; exchange weights are whole hundredths.  A    *)
(* quotient is the record [ip, f1, f2]: integer part, fractional digits    *)
(* 1..8 and fractional digits 9..16, as decimal.Div produces it            *)
(* (DivisionPrecision = 16, half rounded away from zero).                  *)
(*                                                                         *)
(* Strings are sequences of one-character strings.                         *)
(***************************************************************************)
EXTENDS Integers, Sequences, FiniteSets, TLC

VARIABLES
    clients,         \* exchange id -> ExchangeConfig of the clients created by the factory
    health,          \* exchange id -> Health of the client
    loopPc,          \* position of runPoller / pollLoop
    tickerC,         \* ticks waiting in the time.Ticker channel (capacity 1)
    ctxDone,         \* the parent context has been cancelled
    ticks,           \* cadence boundaries passed; the clock is ticks * pollInterval
    workers,         \* exchange id -> the cycle's goroutine for that client
    pricesChan,      \* pricesChan / tickerChan: batches sent and not yet received
    chanClosed,      \* the channel has been closed
    allPrices,       \* pollExchanges: tickers collected so far (local to the call)
    cyclePc,         \* position of pollExchanges
    priceStore,      \* rows the current cycle appended to price_tickers
    vwapResults,     \* pollExchanges: result of CalculateBatch (pair key -> VWAPResult)
    vwapStore,       \* rows the current cycle appended to vwap_prices
    fetchResult,     \* exchange id -> outcome of GetAllTickers in the current cycle
    errsAtStart,     \* exchange id -> ConsecutiveErrors when the current cycle started
    lastCall,        \* exchange id -> clock of the client's latest request (-1: none)
    skipStreak,      \* exchange id -> consecutive cycles that skipped the client
    updStreak,       \* exchange id -> UpdateHealth(false) calls since the last UpdateHealth(true)
    decodeStreak,    \* exchange id -> consecutive fetches answered 200 with an undecodable body
    activeCycles,    \* calls of pollExchanges that have not returned
    psIn,            \* symbol round trip: <<format, base, quote, quote currencies>>
    psOut,           \* symbol round trip: joined symbol and its split
    dbSymbols,       \* token_exchange_symbols: <<exchange id, exchange symbol>> -> row
    dbPairs,         \* trading_pairs: <<exchange id, pair symbol>> -> row
    symbolCache,     \* Resolver.symbolCache: <<exchange id, symbol>> -> token id
    pairCache,       \* Resolver.pairCache: <<exchange id, pair symbol>> -> TokenPair
    normalizedCache, \* Resolver.normalizedCache: normalized symbol -> token id
    refresh,         \* the call of RefreshCache of the background goroutine
    res,             \* the call of resolveTickerTokenIDs of a poll worker
    addsDone,        \* calls of AddSymbolMapping / AddTradingPair that returned nil
    mu,              \* Resolver.mu: the goroutine holding the write lock, the readers
    gor,             \* goroutine -> its position in a resolver method, lock by lock
    det,             \* outlier.Detector: position in DetectOutliers, prices, outliers
    ing              \* BinanceIngester: its fields, its goroutines, the batches inserted

pollVars  == <<health, loopPc, tickerC, ctxDone, ticks, workers, pricesChan, chanClosed,
               fetchResult, errsAtStart, lastCall, skipStreak, updStreak,
               decodeStreak, activeCycles>>
cycleVars == <<allPrices, cyclePc, priceStore, vwapResults, vwapStore>>
lockVars  == <<mu, gor>>
resVars   == <<dbSymbols, dbPairs, symbolCache, pairCache, normalizedCache, refresh, res,
               addsDone, lockVars, det, ing>>
parseVars == <<psIn, psOut, resVars>>

vars == <<clients, pollVars, cycleVars, parseVars>>

----------------------------------------------------------------------------
(* Bounds of the model *)

MaxTickers == 3          \* tickers collected in one poll cycle (calculator runs)
MaxTicks   == 5          \* cadence boundaries in one run of Application.runPoller
MaxSvcTicks == 3         \* cadence boundaries in one run of Service.pollLoop
MaxRecords == 2          \* records in one ticker response (parser to calculator runs)
MaxResolves == 2         \* tickers one worker resolves (resolver runs)
MaxRefresh == 2          \* background calls of RefreshCache (resolver runs)
MaxLockCalls == 1        \* symbols one polling goroutine resolves (lock-level runs)
MaxStopTicks == 1        \* cadence boundaries in a run of Service.pollLoop that is stopped
MaxTrades == 3           \* trade messages the WebSocket delivers (ingester runs)
MaxFlushTicks == 1       \* ticks of the batch timer (ingester runs)
MaxBatch == 2            \* trades that fill a batch (batchSize, 1000 in the ingester)

----------------------------------------------------------------------------
(* Sequence helpers *)

Range(s) == {s[i] : i \in 1..Len(s)}

RECURSIVE SumSeq(_)
SumSeq(s) == IF s = <<>> THEN 0 ELSE Head(s) + SumSeq(Tail(s))

SeqsUpTo(S, n) == UNION {[1..k -> S] : k \in 0..n}

\* all orders in which the elements of the finite set S can be listed
Orders(S) == {o \in [1..Cardinality(S) -> S] : Range(o) = S}

Abs(x) == IF x < 0 THEN -x ELSE x

----------------------------------------------------------------------------
(* shopspring/decimal arithmetic *)

E8 == 100000000

RECURSIVE Pow10(_)
Pow10(k) == IF k = 0 THEN 1 ELSE 10 * Pow10(k - 1)

\* k further digits of the quotient r/den (0 <= r < den), and the remainder left
RECURSIVE FracDigits(_, _, _)
FracDigits(r, den, k) ==
    IF k = 0 THEN <<0, r>>
    ELSE LET d    == (r * 10) \div den
             rest == FracDigits((r * 10) % den, den, k - 1)
         IN  <<d * Pow10(k - 1) + rest[1], rest[2]>>

\* add one unit in the last (16th) place
DecIncUlp(q) ==
    IF q.f2 + 1 < E8 THEN [q EXCEPT !.f2 = q.f2 + 1]
    ELSE IF q.f1 + 1 < E8 THEN [q EXCEPT !.f1 = q.f1 + 1, !.f2 = 0]
    ELSE [ip |-> q.ip + 1, f1 |-> 0, f2 |-> 0]

\* Decimal.Div of two non-negative integers (den > 0): 16 fractional digits,
\* rounded half away from zero on the remainder
DecDiv(num, den) ==
    LET hi == FracDigits(num % den, den, 8)
        lo == FracDigits(hi[2], den, 8)
        q  == [ip |-> num \div den, f1 |-> hi[1], f2 |-> lo[1]]
    IN  IF 2 * lo[2] >= den THEN DecIncUlp(q) ELSE q

\* Decimal.Round(8) of a 16-digit quotient: [ip, f] with 8 fractional digits
DecRound8(q) ==
    IF q.f2 * 2 >= E8
    THEN IF q.f1 + 1 < E8 THEN [ip |-> q.ip, f |-> q.f1 + 1]
         ELSE [ip |-> q.ip + 1, f |-> 0]
    ELSE [ip |-> q.ip, f |-> q.f1]

\* lexicographic <= on tuples of equal length
RECURSIVE LexLeq(_, _)
LexLeq(a, b) ==
    IF a = <<>> THEN TRUE
    ELSE IF Head(a) < Head(b) THEN TRUE
    ELSE IF Head(a) > Head(b) THEN FALSE
    ELSE LexLeq(Tail(a), Tail(b))

\* |p - m| for an integer p and a 16-digit quotient m, as <<int, f1, f2, digit 17>>
DecAbsDiff(p, m) ==
    IF p <= m.ip THEN <<m.ip - p, m.f1, m.f2, 0>>
    ELSE IF m.f1 = 0 /\ m.f2 = 0 THEN <<p - m.ip, 0, 0, 0>>
    ELSE IF m.f2 = 0 THEN <<p - m.ip - 1, E8 - m.f1, 0, 0>>
    ELSE <<p - m.ip - 1, E8 - 1 - m.f1, E8 - m.f2, 0>>

\* m * 0.1 (exact, 17 fractional digits), as <<int, f1, f2, digit 17>>
DecTenth(m) ==
    <<m.ip \div 10,
      (m.ip % 10) * (E8 \div 10) + m.f1 \div 10,
      (m.f1 % 10) * (E8 \div 10) + m.f2 \div 10,
      m.f2 % 10>>

----------------------------------------------------------------------------
(* internal/calculator/vwap.go *)

MaxPrice  == 1000000        \* "Max $1M per token"
MaxVolume == 1000000000     \* "Max $1B volume"
MinOutlierSample == 3       \* removeOutliers: fewer entries are never trimmed

CalcError == [error |-> TRUE]     \* Calculate returned (nil, err)

\* a filter whose price limit is inclusive
filterValidPricesInclusive(prices) ==
    SelectSeq(prices, LAMBDA p :
        /\ p.Price > 0 /\ p.Volume > 0
        /\ p.Price <= MaxPrice /\ p.Volume < MaxVolume)
\* filterValidPrices
filterValidPrices(prices) ==
    SelectSeq(prices, LAMBDA p :
        /\ p.Price > 0 /\ p.Volume > 0
        /\ p.Price < MaxPrice /\ p.Volume < MaxVolume)

\* calculateMedianPrice: the arithmetic mean, sum.Div(len)
calculateMedianPrice(prices) ==
    DecDiv(SumSeq([i \in 1..Len(prices) |-> prices[i].Price]), Len(prices))

\* removeOutliers: deviation.LessThanOrEqual(median * 0.10)
WithinDeviation(p, median) ==
    LexLeq(DecAbsDiff(p.Price, median), DecTenth(median))

\* removeOutliers: "If we removed too many prices, return original"
TooManyRemoved(nCleaned, nPrices) == nCleaned < nPrices \div 2

\* removeOutliers that trims only groups of more than 3 entries
removeOutliersFromFour(prices) ==
    IF Len(prices) <= MinOutlierSample THEN prices
    ELSE LET median  == calculateMedianPrice(prices)
             cleaned == SelectSeq(prices, LAMBDA p : WithinDeviation(p, median))
         IN  IF TooManyRemoved(Len(cleaned), Len(prices)) THEN prices ELSE cleaned
removeOutliers(prices) ==
    IF Len(prices) < MinOutlierSample THEN prices
    ELSE LET median  == calculateMedianPrice(prices)
             cleaned == SelectSeq(prices, LAMBDA p : WithinDeviation(p, median))
         IN  IF TooManyRemoved(Len(cleaned), Len(prices)) THEN prices ELSE cleaned

\* calculateVWAP, first loop: one entry per exchange, the one with the higher volume
RECURSIVE BuildExchangeMap(_, _)
BuildExchangeMap(prices, m) ==
    IF prices = <<>> THEN m
    ELSE LET p == Head(prices)
             e == p.ExchangeID
         IN  BuildExchangeMap(Tail(prices),
                 IF e \in DOMAIN m
                 THEN IF p.Volume > m[e].Volume THEN [m EXCEPT ![e] = p] ELSE m
                 ELSE m @@ (e :> p))

exchangeMap(prices) == BuildExchangeMap(prices, <<>>)

\* calculateVWAP dividing by the plain volume, whatever the weights
calculateVWAPByVolume(prices, order) ==
    LET em          == exchangeMap(prices)
        n           == Len(order)
        weightedSum == SumSeq([i \in 1..n |->
                           em[order[i]].Price * em[order[i]].Volume * em[order[i]].Weight])
        totalVolume == SumSeq([i \in 1..n |-> em[order[i]].Volume])
    IN  [BaseTokenID           |-> prices[1].Symbol,
         VWAPPrice             |-> DecRound8(DecDiv(weightedSum, 100 * totalVolume)),
         TotalVolume           |-> totalVolume,
         ExchangeCount         |-> Cardinality(DOMAIN em),
         ContributingExchanges |-> order,
         PriceSources          |-> [i \in 1..n |-> em[order[i]]]]

\* calculateVWAP with the second loop ranging over prices, not over exchangeMap
calculateVWAPPerEntry(prices, order) ==
    LET em          == exchangeMap(prices)
        n           == Len(prices)
        weightedSum == SumSeq([i \in 1..n |-> prices[i].Price * prices[i].Volume * prices[i].Weight])
        totalVolume == SumSeq([i \in 1..n |-> prices[i].Volume])
        totalWeight == SumSeq([i \in 1..n |-> prices[i].Volume * prices[i].Weight])
        vwapPrice   == IF totalWeight > 0 THEN DecDiv(weightedSum, totalWeight)
                       ELSE IF totalVolume > 0 THEN DecDiv(weightedSum, 100 * totalVolume)
                       ELSE [ip |-> 0, f1 |-> 0, f2 |-> 0]
    IN  [BaseTokenID           |-> prices[1].Symbol,
         VWAPPrice             |-> DecRound8(vwapPrice),
         TotalVolume           |-> totalVolume,
         ExchangeCount         |-> Cardinality(DOMAIN em),
         ContributingExchanges |-> [i \in 1..n |-> prices[i].ExchangeID],
         PriceSources          |-> prices]

\* calculateVWAP; order is the order in which Go ranges over exchangeMap
calculateVWAP(prices, order) ==
    LET em          == exchangeMap(prices)
        n           == Len(order)
        weightedSum == SumSeq([i \in 1..n |->
                           em[order[i]].Price * em[order[i]].Volume * em[order[i]].Weight])
        totalVolume == SumSeq([i \in 1..n |-> em[order[i]].Volume])
        totalWeight == SumSeq([i \in 1..n |-> em[order[i]].Volume * em[order[i]].Weight])
        vwapPrice   == IF totalWeight > 0 THEN DecDiv(weightedSum, totalWeight)
                       ELSE IF totalVolume > 0 THEN DecDiv(weightedSum, 100 * totalVolume)
                       ELSE [ip |-> 0, f1 |-> 0, f2 |-> 0]
    IN  [BaseTokenID           |-> prices[1].Symbol,
         VWAPPrice             |-> DecRound8(vwapPrice),
         TotalVolume           |-> totalVolume,
         ExchangeCount         |-> Cardinality(DOMAIN em),
         ContributingExchanges |-> order,
         PriceSources          |-> [i \in 1..n |-> em[order[i]]]]

\* the entries calculateVWAP receives from Calculate
CleanPrices(prices) == removeOutliers(filterValidPrices(prices))

\* the orders in which the range over exchangeMap can run
MapOrders(prices) ==
    Orders({CleanPrices(prices)[i].ExchangeID : i \in 1..Len(CleanPrices(prices))})

\* Calculate
Calculate(prices, order) ==
    IF Len(prices) = 0 THEN CalcError
    ELSE IF Len(filterValidPrices(prices)) = 0 THEN CalcError
    ELSE IF Len(CleanPrices(prices)) = 0 THEN CalcError
    ELSE calculateVWAP(CleanPrices(prices), order)

\* CalculateBatch: one goroutine per pair, results[p] set only when err = nil
CalculateBatch(pricesByPair, ord) ==
    LET ok == {k \in DOMAIN pricesByPair : Calculate(pricesByPair[k], ord[k]) # CalcError}
    IN  [k \in ok |-> Calculate(pricesByPair[k], ord[k])]

----------------------------------------------------------------------------
(* Go strings package, on sequences of characters *)

LowerChars ==
    <<"a", "b", "c", "d", "e", "f", "g", "h", "i", "j", "k", "l", "m", "n", "o", "p", "q", "r", "s", "t", "u", "v", "w", "x", "y", "z">>
UpperChars ==
    <<"A", "B", "C", "D", "E", "F", "G", "H", "I", "J", "K", "L", "M", "N", "O", "P", "Q", "R", "S", "T", "U", "V", "W", "X", "Y", "Z">>

UpperChar(c) ==
    IF \E i \in 1..Len(LowerChars) : LowerChars[i] = c
    THEN UpperChars[CHOOSE i \in 1..Len(LowerChars) : LowerChars[i] = c]
    ELSE c
LowerChar(c) ==
    IF \E i \in 1..Len(UpperChars) : UpperChars[i] = c
    THEN LowerChars[CHOOSE i \in 1..Len(UpperChars) : UpperChars[i] = c]
    ELSE c

ToUpper(s) == [i \in 1..Len(s) |-> UpperChar(s[i])]
ToLower(s) == [i \in 1..Len(s) |-> LowerChar(s[i])]

HasPrefix(s, pre) == Len(pre) <= Len(s) /\ SubSeq(s, 1, Len(pre)) = pre
HasSuffix(s, suf) == Len(suf) <= Len(s) /\ SubSeq(s, Len(s) - Len(suf) + 1, Len(s)) = suf
TrimSuffix(s, suf) == IF HasSuffix(s, suf) THEN SubSeq(s, 1, Len(s) - Len(suf)) ELSE s

\* strings.ReplaceAll for a non-empty old: leftmost, non-overlapping
RECURSIVE ReplaceAll(_, _, _)
ReplaceAll(s, old, new) ==
    IF s = <<>> THEN <<>>
    ELSE IF HasPrefix(s, old)
         THEN new \o ReplaceAll(SubSeq(s, Len(old) + 1, Len(s)), old, new)
         ELSE <<Head(s)>> \o ReplaceAll(Tail(s), old, new)

\* strings.Split for a one-character separator
RECURSIVE SplitAcc(_, _, _)
SplitAcc(s, sep, cur) ==
    IF s = <<>> THEN <<cur>>
    ELSE IF Head(s) = sep THEN <<cur>> \o SplitAcc(Tail(s), sep, <<>>)
    ELSE SplitAcc(Tail(s), sep, Append(cur, Head(s)))

Split(s, sep) == SplitAcc(s, sep, <<>>)

----------------------------------------------------------------------------
(* Exchange client: symbol formats (GenericRESTClient, BaseParser, factory) *)

FmtBTCUSDT  == "BTCUSDT"
FmtHyphen   == "BTC-USDT"
FmtHyphenUS == "BTC-USD"
FmtUnder    == "BTC_USDT"
FmtLower    == "btcusdt"
FmtBitfinex == "tBTCUSD"
FmtKraken   == "XXBTZUSD"
FmtOther    == "BTC/USDT"      \* any format without a case of its own

SymbolFormats ==
    {FmtBTCUSDT, FmtHyphen, FmtHyphenUS, FmtUnder, FmtLower, FmtBitfinex, FmtKraken, FmtOther}

\* createParser: "Default quote currencies"
DefaultQuoteCurrencies ==
    <<<<"U", "S", "D", "T">>, <<"U", "S", "D", "C">>, <<"U", "S", "D">>, <<"B", "U", "S", "D">>,
       <<"D", "A", "I">>, <<"T", "U", "S", "D">>, <<"F", "D", "U", "S", "D">>, <<"E", "U", "R", "I">>,
       <<"E", "U", "R">>, <<"G", "B", "P">>, <<"J", "P", "Y">>, <<"K", "R", "W">>,
       <<"I", "N", "R">>, <<"T", "R", "Y">>, <<"B", "R", "L">>, <<"M", "X", "N">>,
       <<"A", "R", "S">>, <<"Z", "A", "R">>, <<"U", "A", "H">>, <<"C", "O", "P">>,
       <<"S", "G", "D">>, <<"A", "U", "D">>, <<"C", "A", "D">>, <<"C", "H", "F">>,
       <<"P", "L", "N">>, <<"R", "U", "B">>, <<"C", "N", "Y">>, <<"H", "K", "D">>,
       <<"N", "Z", "D">>, <<"T", "H", "B">>, <<"I", "D", "R">>, <<"P", "H", "P">>,
       <<"B", "T", "C">>, <<"E", "T", "H">>, <<"B", "N", "B">>, <<"S", "O", "L">>,
       <<"D", "O", "G", "E">>, <<"S", "H", "I", "B">>>>

\* GenericRESTClient.normalizeSymbol: canonical BASE-QUOTE to the exchange's format
normalizeSymbol(symbol, format) ==
    CASE format = FmtBTCUSDT -> ToUpper(ReplaceAll(symbol, <<"-">>, <<>>))
      [] format \in {FmtHyphen, FmtHyphenUS} -> ToUpper(symbol)
      [] format = FmtUnder -> ToUpper(ReplaceAll(symbol, <<"-">>, <<"_">>))
      [] format = FmtLower -> ToLower(ReplaceAll(symbol, <<"-">>, <<>>))
      [] format = FmtBitfinex -> <<"t">> \o ToUpper(ReplaceAll(symbol, <<"-">>, <<>>))
      [] format = FmtKraken ->
            LET parts == Split(ToUpper(symbol), "-")
            IN  IF Len(parts) = 2
                THEN LET base  == IF parts[1] = <<"B", "T", "C">> THEN <<"X", "X", "B", "T">>
                                  ELSE IF Len(parts[1]) = 3 THEN <<"X">> \o parts[1]
                                  ELSE parts[1]
                         quote == IF parts[2] \in {<<"U", "S", "D">>, <<"E", "U", "R">>, <<"G", "B", "P">>}
                                  THEN <<"Z">> \o parts[2]
                                  ELSE parts[2]
                     IN  base \o quote
                ELSE ToUpper(symbol)
      [] OTHER -> ToUpper(symbol)

\* ParseSymbolPair, the switch on format: a finished split, or the symbol to go on with
FormatSplit(symbol, format) ==
    CASE format \in {FmtHyphen, FmtHyphenUS} ->
            LET parts == Split(symbol, "-")
            IN  IF Len(parts) = 2 THEN [done |-> TRUE, base |-> parts[1], quote |-> parts[2]]
                ELSE [done |-> FALSE, symbol |-> symbol]
      [] format = FmtUnder ->
            LET parts == Split(symbol, "_")
            IN  IF Len(parts) = 2 THEN [done |-> TRUE, base |-> parts[1], quote |-> parts[2]]
                ELSE [done |-> FALSE, symbol |-> symbol]
      [] format = FmtBitfinex ->
            [done |-> FALSE,
             symbol |-> IF HasPrefix(symbol, <<"t">>) THEN Tail(symbol) ELSE symbol]
      [] format = FmtKraken ->
            [done |-> FALSE,
             symbol |-> ReplaceAll(ReplaceAll(ReplaceAll(symbol,
                            <<"X", "X", "B", "T">>, <<"B", "T", "C">>),
                            <<"Z", "U", "S", "D">>, <<"U", "S", "D">>),
                            <<"Z", "E", "U", "R">>, <<"E", "U", "R">>)]
      [] OTHER -> [done |-> FALSE, symbol |-> symbol]

\* the loop of the development notes: a quote is passed over when the base it
\* leaves is empty or is itself a quote currency
MatchQuoteSkippingQuotedBase(upperSymbol, quoteCurrencies) ==
    LET ok(i) == /\ HasSuffix(upperSymbol, quoteCurrencies[i])
                 /\ TrimSuffix(upperSymbol, quoteCurrencies[i]) # <<>>
                 /\ \A j \in 1..Len(quoteCurrencies) :
                       quoteCurrencies[j] # TrimSuffix(upperSymbol, quoteCurrencies[i])
    IN  IF \E i \in 1..Len(quoteCurrencies) : ok(i)
        THEN CHOOSE i \in 1..Len(quoteCurrencies) : ok(i) /\ \A j \in 1..(i - 1) : ~ok(j)
        ELSE 0
\* ParseSymbolPair, the loop over quoteCurrencies: index of the quote that is used (0: none)
MatchQuote(upperSymbol, quoteCurrencies) ==
    IF \E i \in 1..Len(quoteCurrencies) : HasSuffix(upperSymbol, quoteCurrencies[i])
    THEN CHOOSE i \in 1..Len(quoteCurrencies) :
            /\ HasSuffix(upperSymbol, quoteCurrencies[i])
            /\ \A j \in 1..(i - 1) : ~HasSuffix(upperSymbol, quoteCurrencies[j])
    ELSE 0

\* BaseParser.ParseSymbolPair: <<base, quote>>
ParseSymbolPair(symbol0, format, quoteCurrencies) ==
    LET fs == FormatSplit(symbol0, format)
    IN  IF fs.done THEN <<fs.base, fs.quote>>
        ELSE LET symbol      == fs.symbol
                 upperSymbol == ToUpper(symbol)
                 qi          == MatchQuote(upperSymbol, quoteCurrencies)
                 n           == Len(symbol)
             IN  IF qi # 0
                 THEN <<TrimSuffix(upperSymbol, quoteCurrencies[qi]), quoteCurrencies[qi]>>
                 ELSE IF n > 6 THEN <<SubSeq(symbol, 1, n - 4), SubSeq(symbol, n - 3, n)>>
                 ELSE IF n = 6 THEN <<SubSeq(symbol, 1, 3), SubSeq(symbol, 4, 6)>>
                 ELSE <<symbol, <<>>>>

----------------------------------------------------------------------------
(* Exchange configuration and the tickers the parsers emit *)

Exchanges == {"binance", "kucoin", "kraken"}

\* the format each exchange's parser hands to ParseSymbolPair
ParserFormat(e) ==
    CASE e = "binance" -> FmtBTCUSDT
      [] e = "kucoin"  -> FmtHyphen
      [] e = "kraken"  -> FmtKraken

ExchangeConfig(e, weight, rateLimit) ==
    [Weight |-> weight, RateLimitPerMinute |-> rateLimit,
     SymbolFormat |-> ParserFormat(e), QuoteCurrencies |-> DefaultQuoteCurrencies]

DefaultWeight == 1      \* pollExchanges: decimal.NewFromFloat(0.01), in hundredths

\* raw symbols as the exchanges spell them
RawETH(e) ==
    CASE e = "binance" -> <<"E", "T", "H", "U", "S", "D", "T">>
      [] e = "kucoin"  -> <<"E", "T", "H", "-", "U", "S", "D", "T">>
      [] e = "kraken"  -> <<"E", "T", "H", "U", "S", "D", "T">>
RawBTC(e) ==
    CASE e = "binance" -> <<"B", "T", "C", "U", "S", "D", "T">>
      [] e = "kucoin"  -> <<"B", "T", "C", "-", "U", "S", "D", "T">>
      [] e = "kraken"  -> <<"X", "B", "T", "U", "S", "D", "T">>

Raw(symbol, price, volume) == [symbol |-> symbol, price |-> price, volume |-> volume]

\* parseTickerMap and its siblings: one TickerData from one record of the response
MakeTicker(e, raw) ==
    LET bq == ParseSymbolPair(raw.symbol, ParserFormat(e), DefaultQuoteCurrencies)
    IN  [ExchangeID |-> e, Symbol |-> raw.symbol,
         BaseSymbol |-> bq[1], QuoteSymbol |-> bq[2],
         BaseTokenID |-> 0, QuoteTokenID |-> 0,
         Price |-> raw.price, Volume24h |-> raw.volume]

\* ParseTickers: records with a non-positive price are not appended
ParseTickers(rawTickers, e) ==
    LET kept == SelectSeq(rawTickers, LAMBDA r : r.price > 0)
    IN  [i \in 1..Len(kept) |-> MakeTicker(e, kept[i])]

----------------------------------------------------------------------------
(* pollExchanges after the collection loop (Application) *)

\* PriceStorage.StorePriceTickers: the rows of the batch that is sent
StorePriceTickers(tickers, sendOk) ==
    IF sendOk
    THEN SelectSeq(tickers, LAMBDA t : t.BaseSymbol # <<>> /\ t.QuoteSymbol # <<>>)
    ELSE <<>>

\* fmt.Sprintf("%s-%s", ticker.BaseSymbol, ticker.QuoteSymbol)
PairKey(t) == t.BaseSymbol \o <<"-">> \o t.QuoteSymbol

\* the weight pollExchanges attaches to a ticker
TickerWeight(t, cl) ==
    IF t.ExchangeID \in DOMAIN cl THEN cl[t.ExchangeID].Weight ELSE DefaultWeight

\* pollExchanges: "Group prices by symbol for VWAP calculation"
RECURSIVE GroupBySymbol(_, _, _)
GroupBySymbol(tickers, cl, m) ==
    IF tickers = <<>> THEN m
    ELSE LET t  == Head(tickers)
             k  == PairKey(t)
             pd == [ExchangeID |-> t.ExchangeID, Symbol |-> t.Symbol,
                    Price |-> t.Price, Volume |-> t.Volume24h,
                    Weight |-> TickerWeight(t, cl)]
         IN  IF t.BaseSymbol = <<>> \/ t.QuoteSymbol = <<>>
             THEN GroupBySymbol(Tail(tickers), cl, m)
             ELSE GroupBySymbol(Tail(tickers), cl,
                      IF k \in DOMAIN m THEN [m EXCEPT ![k] = Append(@, pd)]
                      ELSE m @@ (k :> <<pd>>))

pricesBySymbol(tickers, cl) == GroupBySymbol(tickers, cl, <<>>)

\* one range order per pair, for the goroutines of CalculateBatch
OrderChoices(pb) ==
    {ord \in [DOMAIN pb -> UNION {MapOrders(pb[k]) : k \in DOMAIN pb}] :
        \A k \in DOMAIN pb : ord[k] \in MapOrders(pb[k])}

\* VWAPStorage.StoreVWAPResults: the rows of the batch that is sent
StoreVWAPResults(results, sendOk) ==
    IF sendOk
    THEN [k \in DOMAIN results |->
            [vwap_price |-> results[k].VWAPPrice, total_volume |-> results[k].TotalVolume,
             exchange_count |-> results[k].ExchangeCount,
             contributing_exchanges |-> results[k].ContributingExchanges]]
    ELSE <<>>

\* pollExchanges: priceStorage.StorePriceTickers(ctx, allPrices)
StoreTickersStep ==
    /\ cyclePc = "collected"
    /\ \E sendOk \in BOOLEAN : priceStore' = StorePriceTickers(allPrices, sendOk)
    /\ cyclePc' = "stored"
    /\ UNCHANGED <<clients, pollVars, parseVars, allPrices, vwapResults, vwapStore>>

\* pollExchanges: grouping and vwapCalc.CalculateBatch(pricesBySymbol)
CalculateBatchStep ==
    /\ cyclePc = "stored"
    /\ \E ord \in OrderChoices(pricesBySymbol(allPrices, clients)) :
          vwapResults' = CalculateBatch(pricesBySymbol(allPrices, clients), ord)
    /\ cyclePc' = "calculated"
    /\ UNCHANGED <<clients, pollVars, parseVars, allPrices, priceStore, vwapStore>>

\* pollExchanges: storeVWAPPrices(ctx, vwapResults), and the return to runPoller
StoreVWAPStep ==
    /\ cyclePc = "calculated"
    /\ \E sendOk \in BOOLEAN : vwapStore' = StoreVWAPResults(vwapResults, sendOk)
    /\ cyclePc' = "idle"
    /\ loopPc' = "select"
    /\ activeCycles' = activeCycles - 1
    /\ allPrices' = <<>>
    /\ vwapResults' = <<>>
    /\ UNCHANGED <<clients, parseVars, priceStore>>
    /\ UNCHANGED <<health, tickerC, ctxDone, ticks, workers, pricesChan, chanClosed,
                   fetchResult, errsAtStart, lastCall, skipStreak, updStreak,
                   decodeStreak>>

----------------------------------------------------------------------------
(* The calculator on the batches one poll cycle can collect *)

\* weights 0.10 / 0.05 / 0.05, and a configuration that leaves weights out
CalcConfigs ==
    {[e \in Exchanges |-> ExchangeConfig(e, IF e = "binance" THEN 10 ELSE 5, 1200)],
     [e \in Exchanges |-> ExchangeConfig(e, IF e = "binance" THEN 10 ELSE 0, 1200)]}

\* tickers a parser can emit (price > 0)
TickerDomain ==
    {MakeTicker("binance", Raw(RawETH("binance"), 100, v)) : v \in {10, 20}}
    \cup {MakeTicker("kucoin", Raw(RawETH("kucoin"), 120, 10))}
    \cup {MakeTicker("kraken", Raw(RawETH("kraken"), p, 10)) : p \in {100, 140}}
    \cup {MakeTicker(e, Raw(RawBTC(e), 100, 10)) : e \in {"binance", "kraken"}}
    \cup {MakeTicker("binance", Raw(RawETH("binance"), MaxPrice, 10)),
          MakeTicker("kucoin", Raw(RawETH("kucoin"), 100, 0)),
          MakeTicker("kraken", Raw(RawETH("kraken"), 100, MaxVolume))}

IdleWorker == [pc |-> "idle", batch |-> <<>>]

PollInit(cl) ==
    /\ health = [e \in DOMAIN cl |-> [IsHealthy |-> TRUE, ConsecutiveErrors |-> 0]]
    /\ tickerC = 0
    /\ ctxDone = FALSE
    /\ ticks = 0
    /\ workers = [e \in DOMAIN cl |-> IdleWorker]
    /\ pricesChan = <<>>
    /\ chanClosed = FALSE
    /\ fetchResult = [e \in DOMAIN cl |-> "none"]
    /\ errsAtStart = [e \in DOMAIN cl |-> 0]
    /\ lastCall = [e \in DOMAIN cl |-> -1]
    /\ skipStreak = [e \in DOMAIN cl |-> 0]
    /\ updStreak = [e \in DOMAIN cl |-> 0]
    /\ decodeStreak = [e \in DOMAIN cl |-> 0]

\* RefreshCache is not running
RefreshIdle(runs) ==
    [pc |-> "idle", newSymbolCache |-> <<>>, newNormalizedCache |-> <<>>,
     newPairCache |-> <<>>, runs |-> runs]

\* resolveTickerTokenIDs is not running; ticker is the ticker of the latest call,
\* resolved the pairs that earlier calls resolved through a fallback
ResIdle(ticker, calls, resolved) ==
    [pc |-> "idle", ticker |-> ticker, parsed |-> <<>>, baseID |-> 0, quoteID |-> 0,
     err1 |-> FALSE, err2 |-> FALSE, calls |-> calls, resolved |-> resolved]

NoAdds == [symbols |-> <<>>, pairs |-> <<>>]

\* the detector outside DetectOutliers; stored: the rows its last transaction added
DetIdle == [pc |-> "idle", prices |-> <<>>, outliers |-> <<>>, stored |-> <<>>]

\* NewBinanceIngester: nothing started, no connection, an empty batch
IngIdle ==
    [started |-> FALSE, isRunning |-> FALSE, cancelled |-> FALSE, wsConn |-> "nil",
     tradeBatch |-> <<>>, reconnectAttempts |-> 0, failedInARow |-> 0,
     received |-> 0, inserted |-> <<>>,
     conn |-> [pc |-> "none", trade |-> 0],
     timer |-> [pc |-> "none", batch |-> <<>>, ticks |-> 0],
     stop |-> [pc |-> "idle", batch |-> <<>>],
     flushers |-> <<>>]

\* sync.RWMutex, not held
Unlocked == [writer |-> "", readers |-> {}]

\* no resolver: empty tables and caches
ResolverIdle ==
    /\ dbSymbols = <<>>
    /\ dbPairs = <<>>
    /\ symbolCache = <<>>
    /\ pairCache = <<>>
    /\ normalizedCache = <<>>
    /\ refresh = RefreshIdle(0)
    /\ res = ResIdle(<<>>, 0, <<>>)
    /\ addsDone = NoAdds
    /\ mu = Unlocked
    /\ gor = <<>>
    /\ det = DetIdle
    /\ ing = IngIdle

ParseIdle ==
    /\ psIn = <<>>
    /\ psOut = <<>>
    /\ ResolverIdle

LoopInit ==
    /\ loopPc = "initial"
    /\ activeCycles = 0
    /\ allPrices = <<>>
    /\ cyclePc = "idle"
    /\ priceStore = <<>>
    /\ vwapResults = <<>>
    /\ vwapStore = <<>>

InitCalc ==
    /\ clients \in CalcConfigs
    /\ PollInit(clients)
    /\ loopPc = "polling"
    /\ activeCycles = 1
    /\ allPrices \in SeqsUpTo(TickerDomain, MaxTickers)
    /\ cyclePc = "collected"
    /\ priceStore = <<>>
    /\ vwapResults = <<>>
    /\ vwapStore = <<>>
    /\ ParseIdle

NextCalc == StoreTickersStep \/ CalculateBatchStep \/ StoreVWAPStep

SpecCalc == InitCalc /\ [][NextCalc]_vars

----------------------------------------------------------------------------
(* The calculator on groups of one pair around the trimming threshold *)

\* tickers of one pair: prices on the 10% boundary of their mean (6, 7, 7), an
\* exchange reporting twice with different prices, and 3000 / 3005 / 3500
TrimDomain ==
    {MakeTicker("binance", Raw(RawETH("binance"), 6, 10)),
     MakeTicker("binance", Raw(RawETH("binance"), 7, 10)),
     MakeTicker("binance", Raw(RawETH("binance"), 9, 20)),
     MakeTicker("kucoin", Raw(RawETH("kucoin"), 7, 10)),
     MakeTicker("kraken", Raw(RawETH("kraken"), 7, 10)),
     MakeTicker("binance", Raw(RawETH("binance"), 3000, 10)),
     MakeTicker("kucoin", Raw(RawETH("kucoin"), 3005, 10)),
     MakeTicker("kraken", Raw(RawETH("kraken"), 3500, 10))}

InitTrim ==
    /\ clients \in CalcConfigs
    /\ PollInit(clients)
    /\ loopPc = "polling"
    /\ activeCycles = 1
    /\ allPrices \in SeqsUpTo(TrimDomain, MaxTickers)
    /\ cyclePc = "collected"
    /\ priceStore = <<>>
    /\ vwapResults = <<>>
    /\ vwapStore = <<>>
    /\ ParseIdle

SpecTrim == InitTrim /\ [][NextCalc]_vars

----------------------------------------------------------------------------
(* GenericRESTClient: health and requests *)

UnhealthyThreshold == 3     \* UpdateHealth: ConsecutiveErrors >= 3

\* UpdateHealth with the comparison > in place of >=
UpdateHealthLateFlip(h, success) ==
    IF success
    THEN [IsHealthy |-> TRUE, ConsecutiveErrors |-> 0]
    ELSE [IsHealthy |-> IF h.ConsecutiveErrors + 1 > UnhealthyThreshold
                        THEN FALSE ELSE h.IsHealthy,
          ConsecutiveErrors |-> h.ConsecutiveErrors + 1]
\* UpdateHealth without the reset of the error count on success
UpdateHealthKeepsCount(h, success) ==
    IF success
    THEN [IsHealthy |-> TRUE, ConsecutiveErrors |-> h.ConsecutiveErrors]
    ELSE [IsHealthy |-> IF h.ConsecutiveErrors + 1 >= UnhealthyThreshold
                        THEN FALSE ELSE h.IsHealthy,
          ConsecutiveErrors |-> h.ConsecutiveErrors + 1]
\* GenericRESTClient.UpdateHealth
UpdateHealth(h, success) ==
    IF success
    THEN [IsHealthy |-> TRUE, ConsecutiveErrors |-> 0]
    ELSE [IsHealthy |-> IF h.ConsecutiveErrors + 1 >= UnhealthyThreshold
                        THEN FALSE ELSE h.IsHealthy,
          ConsecutiveErrors |-> h.ConsecutiveErrors + 1]

\* results of the HTTP exchange in makeRequest: Do fails; status other than 200;
\* status 200 and the body cannot be read; status 200 and the body is read
HTTPOutcomes(cancelled) ==
    IF cancelled THEN {"neterr"} ELSE {"neterr", "status", "readerr", "ok"}

\* makeRequest: the health update it performs for each outcome
makeRequestHealth(h, r) ==
    IF r = "neterr" THEN UpdateHealth(h, FALSE)
    ELSE UpdateHealth(h, r \in {"readerr", "ok"})

\* GenericRESTClient.GetRateLimit, in milliseconds
GetRateLimit(cfg) == 60000 \div cfg.RateLimitPerMinute

PollInterval == 15000        \* pollInterval: 15 * time.Second, in milliseconds
Now == ticks * PollInterval

\* time.Ticker: a tick is delivered into a channel of capacity 1, or dropped
TickerFire(running, maxTicks) ==
    /\ running
    /\ ticks < maxTicks
    /\ ticks' = ticks + 1
    /\ tickerC' = 1
    /\ UNCHANGED <<clients, cycleVars, parseVars>>
    /\ UNCHANGED <<health, loopPc, ctxDone, workers, pricesChan, chanClosed,
                   fetchResult, errsAtStart, lastCall, skipStreak, updStreak, decodeStreak,
                   activeCycles>>

\* cancel() of the parent context
Shutdown ==
    /\ ~ctxDone
    /\ loopPc # "stopped"
    /\ ctxDone' = TRUE
    /\ UNCHANGED <<clients, cycleVars, parseVars>>
    /\ UNCHANGED <<health, loopPc, tickerC, ticks, workers, pricesChan, chanClosed,
                   fetchResult, errsAtStart, lastCall, skipStreak, updStreak, decodeStreak,
                   activeCycles>>

\* a loop that looks at ctx.Done() only when a tick has arrived
LoopExitOnTick ==
    /\ loopPc = "select"
    /\ ctxDone
    /\ tickerC = 1
    /\ loopPc' = "stopped"
    /\ UNCHANGED <<clients, cycleVars, parseVars>>
    /\ UNCHANGED <<health, tickerC, ctxDone, ticks, workers, pricesChan, chanClosed,
                   fetchResult, errsAtStart, lastCall, skipStreak, updStreak, decodeStreak,
                   activeCycles>>
\* the select of the poll loop takes its ctx.Done() case
LoopExit ==
    /\ loopPc = "select"
    /\ ctxDone
    /\ loopPc' = "stopped"
    /\ UNCHANGED <<clients, cycleVars, parseVars>>
    /\ UNCHANGED <<health, tickerC, ctxDone, ticks, workers, pricesChan, chanClosed,
                   fetchResult, errsAtStart, lastCall, skipStreak, updStreak, decodeStreak,
                   activeCycles>>

\* the responses an exchange can give: lists of records
RawBatches(e) ==
    {<<Raw(RawBTC(e), 0, 10), Raw(RawETH(e), IF e = "binance" THEN 100 ELSE 120, 10)>>}

\* a loop that would start pollExchanges in a goroutine of its own and go on selecting
LoopSelectsWhilePolling == loopPc \in {"select", "polling"}
\* the poll loop is where it calls pollExchanges from: before the loop, or in
\* the ticker case of the select
LoopAtSelect == loopPc = "select"

LoopCanPoll ==
    \/ loopPc = "initial"
    \/ LoopAtSelect /\ tickerC = 1

\* entering pollExchanges: make(chan, len(clients)) and the goroutines
EnterCycle(spawned) ==
    /\ LoopCanPoll
    /\ loopPc' = IF loopPc = "initial" THEN "initpoll" ELSE "polling"
    /\ tickerC' = IF loopPc = "initial" THEN tickerC ELSE 0
    /\ activeCycles' = activeCycles + 1
    /\ workers' = [e \in DOMAIN clients |->
                      IF e \in spawned THEN [pc |-> "start", batch |-> <<>>] ELSE IdleWorker]
    /\ fetchResult' = [e \in DOMAIN clients |-> IF e \in spawned THEN "none" ELSE "skipped"]
    /\ skipStreak' = [e \in DOMAIN clients |-> IF e \in spawned THEN 0 ELSE skipStreak[e] + 1]
    /\ errsAtStart' = [e \in DOMAIN clients |-> health[e].ConsecutiveErrors]
    /\ pricesChan' = <<>>
    /\ chanClosed' = FALSE
    /\ allPrices' = <<>>
    /\ vwapResults' = <<>>
    /\ priceStore' = <<>>
    /\ vwapStore' = <<>>
    /\ cyclePc' = "collect"
    /\ UNCHANGED <<clients, parseVars, health, ctxDone, ticks, lastCall,
                   updStreak, decodeStreak>>

\* worker: pricesChan <- tickers
Send(e) ==
    /\ workers[e].pc = "send"
    /\ ~chanClosed
    /\ Len(pricesChan) < Cardinality(DOMAIN clients)
    /\ pricesChan' = Append(pricesChan, workers[e].batch)
    /\ workers' = [workers EXCEPT ![e] = [pc |-> "done", batch |-> <<>>]]
    /\ UNCHANGED <<clients, cycleVars, parseVars>>
    /\ UNCHANGED <<health, loopPc, tickerC, ctxDone, ticks, chanClosed,
                   fetchResult, errsAtStart, lastCall, skipStreak, updStreak, decodeStreak,
                   activeCycles>>

\* a wait that ends when the first worker has returned
OneWorkerReturned == \E e \in DOMAIN clients : workers[e].pc \in {"idle", "done"}
\* go func() { wg.Wait(); close(pricesChan) }()
WorkersReturned == \A e \in DOMAIN clients : workers[e].pc \in {"idle", "done"}

CloseChan ==
    /\ cyclePc = "collect"
    /\ ~chanClosed
    /\ WorkersReturned
    /\ chanClosed' = TRUE
    /\ UNCHANGED <<clients, cycleVars, parseVars>>
    /\ UNCHANGED <<health, loopPc, tickerC, ctxDone, ticks, workers, pricesChan,
                   fetchResult, errsAtStart, lastCall, skipStreak, updStreak, decodeStreak,
                   activeCycles>>

\* for prices := range pricesChan: one batch received
Collect ==
    /\ cyclePc = "collect"
    /\ pricesChan # <<>>
    /\ allPrices' = allPrices \o Head(pricesChan)
    /\ pricesChan' = Tail(pricesChan)
    /\ UNCHANGED <<clients, parseVars, cyclePc, priceStore, vwapResults, vwapStore>>
    /\ UNCHANGED <<health, loopPc, tickerC, ctxDone, ticks, workers, chanClosed,
                   fetchResult, errsAtStart, lastCall, skipStreak, updStreak, decodeStreak,
                   activeCycles>>

\* the range loop ends: the channel is closed and drained
RangeEnds == pricesChan = <<>> /\ chanClosed

CollectEnd ==
    /\ cyclePc = "collect"
    /\ RangeEnds
    /\ cyclePc' = "collected"
    /\ UNCHANGED <<clients, pollVars, parseVars, allPrices, priceStore, vwapResults, vwapStore>>

\* the health bookkeeping of one UpdateHealth call
NoteUpdate(e, success) ==
    updStreak' = [updStreak EXCEPT ![e] = IF success THEN 0 ELSE @ + 1]

\* success of the health update makeRequest performs
RequestHealthy(r) == r \in {"readerr", "ok"}

----------------------------------------------------------------------------
(* Application.runPoller / pollExchanges *)

\* pollExchanges: "Skipping unhealthy exchange"
PolledClients == {e \in DOMAIN clients : health[e].IsHealthy}

App_Poll == EnterCycle(PolledClients)

\* worker: GetAllTickers, the request
App_Request(e) ==
    /\ workers[e].pc = "start"
    /\ \E r \in HTTPOutcomes(ctxDone) :
          /\ health' = [health EXCEPT ![e] = makeRequestHealth(@, r)]
          /\ NoteUpdate(e, RequestHealthy(r))
          /\ workers' = [workers EXCEPT ![e].pc = IF r = "ok" THEN "parse" ELSE "done"]
          /\ fetchResult' = [fetchResult EXCEPT ![e] = IF r = "ok" THEN @ ELSE r]
          /\ decodeStreak' = [decodeStreak EXCEPT ![e] = IF r = "ok" THEN @ ELSE 0]
    /\ lastCall' = [lastCall EXCEPT ![e] = Now]
    /\ UNCHANGED <<clients, cycleVars, parseVars>>
    /\ UNCHANGED <<loopPc, tickerC, ctxDone, ticks, pricesChan, chanClosed, errsAtStart,
                   skipStreak, activeCycles>>

\* worker: GetAllTickers, parser.ParseTickers; an error only returns
App_Parse(e) ==
    /\ workers[e].pc = "parse"
    /\ \/ /\ workers' = [workers EXCEPT ![e].pc = "done"]
          /\ fetchResult' = [fetchResult EXCEPT ![e] = "decode"]
          /\ decodeStreak' = [decodeStreak EXCEPT ![e] = @ + 1]
       \/ /\ \E raw \in RawBatches(e) :
                workers' = [workers EXCEPT ![e] = [pc |-> "send", batch |-> ParseTickers(raw, e)]]
          /\ fetchResult' = [fetchResult EXCEPT ![e] = "ok"]
          /\ decodeStreak' = [decodeStreak EXCEPT ![e] = 0]
    /\ UNCHANGED <<clients, cycleVars, parseVars>>
    /\ UNCHANGED <<health, loopPc, tickerC, ctxDone, ticks, pricesChan, chanClosed, errsAtStart,
                   lastCall, skipStreak, updStreak, activeCycles>>

\* rate limits of the configured exchanges, per minute
AppConfigs ==
    {[e \in {"binance", "kucoin"} |->
         ExchangeConfig(e, IF e = "binance" THEN 10 ELSE 5, IF e = "binance" THEN 1200 ELSE rl)] :
       rl \in {2, 1200}}

InitApp ==
    /\ clients \in AppConfigs
    /\ PollInit(clients)
    /\ LoopInit
    /\ ParseIdle

\* time.NewTicker precedes the initial poll; defer ticker.Stop()
AppTickerRunning == loopPc # "stopped"

NextApp ==
    \/ App_Poll
    \/ \E e \in DOMAIN clients : App_Request(e)
    \/ \E e \in DOMAIN clients : App_Parse(e)
    \/ \E e \in DOMAIN clients : Send(e)
    \/ CloseChan
    \/ Collect
    \/ CollectEnd
    \/ StoreTickersStep
    \/ CalculateBatchStep
    \/ StoreVWAPStep
    \/ TickerFire(AppTickerRunning, MaxTicks)
    \/ Shutdown
    \/ LoopExit

SpecApp == InitApp /\ [][NextApp]_vars

----------------------------------------------------------------------------
(* One poll cycle from the ticker responses to the stored VWAP results *)

\* UnifiedParser.getPriceField: the first positive field, else decimal.Zero
getPriceField(raw) == IF raw.price > 0 THEN raw.price ELSE 0

\* UnifiedParser.getVolumeField: the first positive field, else decimal.Zero
getVolumeField(raw) == IF raw.volume > 0 THEN raw.volume ELSE 0

\* UnifiedParser.parseArrayTickers: records without a symbol are skipped, and a
\* ticker is appended only if its price is positive
parseArrayTickers(rawTickers, e) ==
    LET named == SelectSeq(rawTickers, LAMBDA r : r.symbol # <<>>)
        built == [i \in 1..Len(named) |->
                     MakeTicker(e, Raw(named[i].symbol, getPriceField(named[i]),
                                       getVolumeField(named[i])))]
    IN  SelectSeq(built, LAMBDA t : t.Price > 0)

\* the records a ticker response can hold
ResponseRecords(e) ==
    IF e = "binance"
    THEN {Raw(RawETH(e), pv[1], pv[2]) :
             pv \in {<<100, 10>>, <<0, 10>>, <<100, 0>>, <<100, -1>>,
                     <<MaxPrice, 10>>, <<100, MaxVolume>>}}
    ELSE {Raw(RawETH(e), 120, 10), Raw(RawETH(e), -1, 10), Raw(<<>>, 100, 10)}

\* the responses: at least one record each
Responses(e) == SeqsUpTo(ResponseRecords(e), MaxRecords) \ {<<>>}

\* worker: GetAllTickers, parser.ParseTickers on the body of a 200 response
Pipe_Parse(e) ==
    /\ workers[e].pc = "parse"
    /\ \/ /\ workers' = [workers EXCEPT ![e].pc = "done"]
          /\ fetchResult' = [fetchResult EXCEPT ![e] = "decode"]
          /\ decodeStreak' = [decodeStreak EXCEPT ![e] = @ + 1]
       \/ /\ \E raw \in Responses(e) :
                workers' = [workers EXCEPT ![e] =
                               [pc |-> "send", batch |-> parseArrayTickers(raw, e)]]
          /\ fetchResult' = [fetchResult EXCEPT ![e] = "ok"]
          /\ decodeStreak' = [decodeStreak EXCEPT ![e] = 0]
    /\ UNCHANGED <<clients, cycleVars, parseVars>>
    /\ UNCHANGED <<health, loopPc, tickerC, ctxDone, ticks, pricesChan, chanClosed, errsAtStart,
                   lastCall, skipStreak, updStreak, activeCycles>>

\* the initial poll, every request answered with status 200
InitPipe ==
    /\ clients \in AppConfigs
    /\ health = [e \in DOMAIN clients |-> [IsHealthy |-> TRUE, ConsecutiveErrors |-> 0]]
    /\ tickerC = 0
    /\ ctxDone = FALSE
    /\ ticks = 0
    /\ workers = [e \in DOMAIN clients |-> [pc |-> "parse", batch |-> <<>>]]
    /\ pricesChan = <<>>
    /\ chanClosed = FALSE
    /\ fetchResult = [e \in DOMAIN clients |-> "none"]
    /\ errsAtStart = [e \in DOMAIN clients |-> 0]
    /\ lastCall = [e \in DOMAIN clients |-> Now]
    /\ skipStreak = [e \in DOMAIN clients |-> 0]
    /\ updStreak = [e \in DOMAIN clients |-> 0]
    /\ decodeStreak = [e \in DOMAIN clients |-> 0]
    /\ loopPc = "initpoll"
    /\ activeCycles = 1
    /\ allPrices = <<>>
    /\ cyclePc = "collect"
    /\ priceStore = <<>>
    /\ vwapResults = <<>>
    /\ vwapStore = <<>>
    /\ ParseIdle

NextPipe ==
    \/ \E e \in DOMAIN clients : Pipe_Parse(e)
    \/ \E e \in DOMAIN clients : Send(e)
    \/ CloseChan
    \/ Collect
    \/ CollectEnd
    \/ StoreTickersStep
    \/ CalculateBatchStep
    \/ StoreVWAPStep

SpecPipe == InitPipe /\ [][NextPipe]_vars

----------------------------------------------------------------------------
(* polling.Service: pollLoop / pollExchanges *)

\* token ids of the seeded tokens (0: no such token)
TokenID(sym) ==
    CASE sym = <<"B", "T", "C">> -> 1
      [] sym = <<"E", "T", "H">> -> 2
      [] sym = <<"U", "S", "D", "T">> -> 3
      [] OTHER -> 0

\* seeded symbol mappings: the token an exchange means by a symbol
\* ({"BTC", "kraken", "XBT", "BTC"}); every other symbol is the token's own symbol
symbolMappings(e, sym) ==
    IF e = "kraken" /\ sym = <<"X", "B", "T">> THEN <<"B", "T", "C">> ELSE sym

\* what resolveTickerTokenIDs can leave in a ticker: both ids from the pair or the
\* per-symbol mappings, or each id on its own from the normalized lookup
ResolveOutcomes == {"both", "base", "quote", "none"}

resolveTickerTokenIDs(t, outcome) ==
    [t EXCEPT !.BaseTokenID  = IF outcome \in {"both", "base"} THEN TokenID(t.BaseSymbol) ELSE 0,
              !.QuoteTokenID = IF outcome \in {"both", "quote"} THEN TokenID(t.QuoteSymbol) ELSE 0]

\* Service.storeTickers: the rows of the batch that is sent
storeTickers(tickers, sendOk) ==
    IF sendOk
    THEN SelectSeq(tickers, LAMBDA t : ~(t.BaseTokenID = 0 \/ t.QuoteTokenID = 0))
    ELSE <<>>

\* every client is polled
Svc_Poll == EnterCycle(DOMAIN clients)

\* worker: GetAllTickers, the request
Svc_Request(e) ==
    /\ workers[e].pc = "start"
    /\ \E r \in HTTPOutcomes(ctxDone) :
          /\ health' = [health EXCEPT ![e] = makeRequestHealth(@, r)]
          /\ NoteUpdate(e, RequestHealthy(r))
          /\ workers' = [workers EXCEPT ![e].pc = IF r = "ok" THEN "parse" ELSE "failed"]
          /\ fetchResult' = [fetchResult EXCEPT ![e] = IF r = "ok" THEN @ ELSE r]
          /\ decodeStreak' = [decodeStreak EXCEPT ![e] = IF r = "ok" THEN @ ELSE 0]
    /\ UNCHANGED <<clients, cycleVars, parseVars>>
    /\ UNCHANGED <<loopPc, tickerC, ctxDone, ticks, pricesChan, chanClosed, errsAtStart,
                   lastCall, skipStreak, activeCycles>>

\* worker: GetAllTickers, parser.ParseTickers
Svc_Parse(e) ==
    /\ workers[e].pc = "parse"
    /\ \/ /\ workers' = [workers EXCEPT ![e].pc = "failed"]
          /\ fetchResult' = [fetchResult EXCEPT ![e] = "decode"]
          /\ decodeStreak' = [decodeStreak EXCEPT ![e] = @ + 1]
       \/ /\ \E raw \in RawBatches(e) :
                workers' = [workers EXCEPT ![e] = [pc |-> "fetched", batch |-> ParseTickers(raw, e)]]
          /\ fetchResult' = [fetchResult EXCEPT ![e] = "ok"]
          /\ decodeStreak' = [decodeStreak EXCEPT ![e] = 0]
    /\ UNCHANGED <<clients, cycleVars, parseVars>>
    /\ UNCHANGED <<health, loopPc, tickerC, ctxDone, ticks, pricesChan, chanClosed, errsAtStart,
                   lastCall, skipStreak, updStreak, activeCycles>>

\* worker: err != nil: client.UpdateHealth(false, 0); return
Svc_Failed(e) ==
    /\ workers[e].pc = "failed"
    /\ health' = [health EXCEPT ![e] = UpdateHealth(@, FALSE)]
    /\ NoteUpdate(e, FALSE)
    /\ workers' = [workers EXCEPT ![e].pc = "done"]
    /\ UNCHANGED <<clients, cycleVars, parseVars>>
    /\ UNCHANGED <<loopPc, tickerC, ctxDone, ticks, pricesChan, chanClosed, fetchResult,
                   errsAtStart, lastCall, skipStreak, decodeStreak, activeCycles>>

\* worker: client.UpdateHealth(true, ...) and the token ids of each ticker
Svc_Succeeded(e) ==
    /\ workers[e].pc = "fetched"
    /\ health' = [health EXCEPT ![e] = UpdateHealth(@, TRUE)]
    /\ NoteUpdate(e, TRUE)
    /\ \E out \in [1..Len(workers[e].batch) -> ResolveOutcomes] :
          workers' = [workers EXCEPT ![e] =
                         [pc |-> "send",
                          batch |-> [i \in 1..Len(workers[e].batch) |->
                                        resolveTickerTokenIDs(workers[e].batch[i], out[i])]]]
    /\ UNCHANGED <<clients, cycleVars, parseVars>>
    /\ UNCHANGED <<loopPc, tickerC, ctxDone, ticks, pricesChan, chanClosed, fetchResult,
                   errsAtStart, lastCall, skipStreak, decodeStreak, activeCycles>>

\* pollExchanges: storeTickers(allTickers), and the return to pollLoop
Svc_StoreTickers ==
    /\ cyclePc = "collected"
    /\ \E sendOk \in BOOLEAN : priceStore' = storeTickers(allPrices, sendOk)
    /\ cyclePc' = "idle"
    /\ loopPc' = "select"
    /\ activeCycles' = activeCycles - 1
    /\ allPrices' = <<>>
    /\ UNCHANGED <<clients, parseVars, vwapResults, vwapStore>>
    /\ UNCHANGED <<health, tickerC, ctxDone, ticks, workers, pricesChan, chanClosed,
                   fetchResult, errsAtStart, lastCall, skipStreak, updStreak, decodeStreak>>

SvcConfigs == AppConfigs

InitSvc ==
    /\ clients \in SvcConfigs
    /\ PollInit(clients)
    /\ LoopInit
    /\ ParseIdle

\* time.NewTicker follows the initial poll; defer ticker.Stop()
SvcTickerRunning == loopPc \in {"select", "polling"}

NextSvc ==
    \/ Svc_Poll
    \/ \E e \in DOMAIN clients : Svc_Request(e)
    \/ \E e \in DOMAIN clients : Svc_Parse(e)
    \/ \E e \in DOMAIN clients : Svc_Failed(e)
    \/ \E e \in DOMAIN clients : Svc_Succeeded(e)
    \/ \E e \in DOMAIN clients : Send(e)
    \/ CloseChan
    \/ Collect
    \/ CollectEnd
    \/ Svc_StoreTickers
    \/ TickerFire(SvcTickerRunning, MaxSvcTicks)
    \/ Shutdown
    \/ LoopExit

SpecSvc == InitSvc /\ [][NextSvc]_vars

\* a step of pollLoop, of pollExchanges or of one of its goroutines
SvcProgress ==
    \/ Svc_Poll
    \/ \E e \in DOMAIN clients :
          Svc_Request(e) \/ Svc_Parse(e) \/ Svc_Failed(e) \/ Svc_Succeeded(e) \/ Send(e)
    \/ CloseChan
    \/ Collect
    \/ CollectEnd
    \/ Svc_StoreTickers
    \/ LoopExit

\* the goroutines keep running: a call that can return does (the requests within
\* their 10 s timeout), a ready case of the select is taken. Nothing is assumed
\* about the ticker.
FairSvc == WF_vars(SvcProgress)

\* the service until it is stopped, with few ticks of the ticker
NextSvcLive ==
    \/ Svc_Poll
    \/ \E e \in DOMAIN clients : Svc_Request(e)
    \/ \E e \in DOMAIN clients : Svc_Parse(e)
    \/ \E e \in DOMAIN clients : Svc_Failed(e)
    \/ \E e \in DOMAIN clients : Svc_Succeeded(e)
    \/ \E e \in DOMAIN clients : Send(e)
    \/ CloseChan
    \/ Collect
    \/ CollectEnd
    \/ Svc_StoreTickers
    \/ TickerFire(SvcTickerRunning, MaxStopTicks)
    \/ Shutdown
    \/ LoopExit

SpecSvcLive == InitSvc /\ [][NextSvcLive]_vars /\ FairSvc

----------------------------------------------------------------------------
(* Symbol round trip: normalizeSymbol, then ParseSymbolPair *)

RoundTripBases ==
    {<<"B", "T", "C">>, <<"E", "T", "H">>, <<"L", "I", "N", "K">>, <<"U", "S", "D", "T">>,
     <<"D", "O", "G", "E">>}

\* quotes of the exchange's quote-currency list
RoundTripQuotes ==
    {DefaultQuoteCurrencies[i] : i \in {1, 3, 4, 9, 10, 14, 33}}

\* a configured quote_currencies list, fiat before crypto
FiatFirstQuoteCurrencies ==
    <<<<"T", "R", "Y">>, <<"U", "S", "D", "T">>, <<"U", "S", "D", "C">>, <<"B", "T", "C">>,
      <<"E", "T", "H">>, <<"D", "O", "G", "E">>>>

\* createParser: config.QuoteCurrencies, or the default list when it is empty
QuoteLists == {DefaultQuoteCurrencies, FiatFirstQuoteCurrencies}

InitParse ==
    /\ clients \in AppConfigs
    /\ PollInit(clients)
    /\ LoopInit
    /\ psIn \in (SymbolFormats \X RoundTripBases \X RoundTripQuotes \X QuoteLists)
    /\ psOut = <<>>
    /\ ResolverIdle

\* GetTickers normalizes the requested BASE-QUOTE; the parser splits the symbol
RoundTrip ==
    /\ psOut = <<>>
    /\ LET joined == normalizeSymbol(psIn[2] \o <<"-">> \o psIn[3], psIn[1])
       IN  psOut' = [joined |-> joined,
                     split  |-> ParseSymbolPair(joined, psIn[1], psIn[4])]
    /\ UNCHANGED <<clients, pollVars, cycleVars, psIn, resVars>>

NextParse == RoundTrip

SpecParse == InitParse /\ [][NextParse]_vars

----------------------------------------------------------------------------
(* symbol.Resolver and Service.resolveTickerTokenIDs *)

\* column defaults of the mapping-tracking migration (confidence in hundredths)
DefaultMappingMethod == "manual"
DefaultConfidenceScore == 100
DefaultNeedsVerification == FALSE

\* Resolver.normalizeSymbol: upper case, the first matching prefix of "X", "XX", "t"
\* removed, then the replacement of a whole "XBT"
Resolver_normalizeSymbol(symbol) ==
    LET upper    == ToUpper(symbol)
        prefixes == <<<<"X">>, <<"X", "X">>, <<"t">>>>
        hits     == {i \in 1..Len(prefixes) :
                        HasPrefix(upper, prefixes[i]) /\ Len(upper) > Len(prefixes[i])}
        first    == CHOOSE i \in hits : \A j \in hits : i <= j
        stripped == IF hits = {} THEN upper
                    ELSE SubSeq(upper, Len(prefixes[first]) + 1, Len(upper))
    IN  IF stripped = <<"X", "B", "T">> THEN <<"B", "T", "C">> ELSE stripped

\* strings.Contains for a one-character separator
Contains(s, sep) == \E i \in 1..Len(s) : s[i] = sep

ResolverQuoteCurrencies ==
    << <<"U", "S", "D", "T">>, <<"U", "S", "D", "C">>, <<"U", "S", "D">>, <<"B", "T", "C">>,
       <<"E", "T", "H">>, <<"E", "U", "R">>, <<"G", "B", "P">>, <<"J", "P", "Y">>,
       <<"K", "R", "W">>, <<"B", "N", "B">> >>

\* Resolver.parsePairSymbol
parsePairSymbol(pairSymbol) ==
    LET separators == <<"-", "_", "/">>
        seps  == {i \in 1..Len(separators) :
                     /\ Contains(pairSymbol, separators[i])
                     /\ Len(Split(pairSymbol, separators[i])) = 2}
        sep   == separators[CHOOSE i \in seps : \A j \in seps : i <= j]
        upper == ToUpper(pairSymbol)
        qs    == {i \in 1..Len(ResolverQuoteCurrencies) :
                     HasSuffix(upper, ResolverQuoteCurrencies[i])}
        quote == ResolverQuoteCurrencies[CHOOSE i \in qs : \A j \in qs : i <= j]
    IN  IF seps # {} THEN Split(pairSymbol, sep)
        ELSE IF qs # {} THEN <<SubSeq(upper, 1, Len(upper) - Len(quote)), quote>>
        ELSE IF Len(pairSymbol) >= 6
             THEN <<SubSeq(pairSymbol, 1, 3), SubSeq(pairSymbol, 4, Len(pairSymbol))>>
             ELSE <<pairSymbol, <<>>>>

\* an upsert that lowers the confidence of a row each time it is written again
UpsertSymbolLosingConfidence(db, key, tokenID, normalizedSymbol) ==
    IF key \in DOMAIN db
    THEN [db EXCEPT ![key].token_id = tokenID, ![key].normalized_symbol = normalizedSymbol,
                    ![key].confidence_score = @ - 1]
    ELSE (key :> [token_id |-> tokenID, normalized_symbol |-> normalizedSymbol,
                  mapping_method |-> DefaultMappingMethod,
                  confidence_score |-> DefaultConfidenceScore,
                  needs_verification |-> DefaultNeedsVerification]) @@ db
\* INSERT INTO token_exchange_symbols ... ON CONFLICT (exchange_id, exchange_symbol)
\* DO UPDATE SET token_id, normalized_symbol: a new row takes the column defaults,
\* an existing row keeps its tracking columns
UpsertSymbol(db, key, tokenID, normalizedSymbol) ==
    IF key \in DOMAIN db
    THEN [db EXCEPT ![key].token_id = tokenID, ![key].normalized_symbol = normalizedSymbol]
    ELSE (key :> [token_id |-> tokenID, normalized_symbol |-> normalizedSymbol,
                  mapping_method |-> DefaultMappingMethod,
                  confidence_score |-> DefaultConfidenceScore,
                  needs_verification |-> DefaultNeedsVerification]) @@ db

\* INSERT INTO trading_pairs ... ON CONFLICT (exchange_id, exchange_pair_symbol)
\* DO UPDATE SET base_token_id, quote_token_id
UpsertPair(db, key, baseTokenID, quoteTokenID) ==
    IF key \in DOMAIN db
    THEN [db EXCEPT ![key].base_token_id = baseTokenID, ![key].quote_token_id = quoteTokenID]
    ELSE (key :> [base_token_id |-> baseTokenID, quote_token_id |-> quoteTokenID,
                  mapping_method |-> DefaultMappingMethod,
                  confidence_score |-> DefaultConfidenceScore,
                  needs_verification |-> DefaultNeedsVerification]) @@ db

\* seedSymbolMappings: one upsert per {token, exchange, exchange symbol, normalized}
RECURSIVE seedSymbolMappings(_, _)
seedSymbolMappings(mappings, db) ==
    IF mappings = <<>> THEN db
    ELSE LET m == Head(mappings)
         IN  seedSymbolMappings(Tail(mappings),
                                UpsertSymbol(db, <<m[2], m[3]>>, TokenID(m[1]), m[4]))

\* seedTradingPairs: one upsert per {base token, quote token, exchange, pair symbol}
RECURSIVE seedTradingPairs(_, _)
seedTradingPairs(pairs, db) ==
    IF pairs = <<>> THEN db
    ELSE LET m == Head(pairs)
         IN  seedTradingPairs(Tail(pairs),
                              UpsertPair(db, <<m[3], m[4]>>, TokenID(m[1]), TokenID(m[2])))

\* the seeded rows of the modelled exchanges and tokens
SeedSymbols ==
    seedSymbolMappings(
        << <<<<"B", "T", "C">>, "binance", <<"B", "T", "C">>, <<"B", "T", "C">>>>,
           <<<<"B", "T", "C">>, "kraken", <<"X", "B", "T">>, <<"B", "T", "C">>>>,
           <<<<"E", "T", "H">>, "binance", <<"E", "T", "H">>, <<"E", "T", "H">>>>,
           <<<<"U", "S", "D", "T">>, "binance", <<"U", "S", "D", "T">>, <<"U", "S", "D", "T">>>>,
           <<<<"U", "S", "D", "T">>, "kraken", <<"U", "S", "D", "T">>, <<"U", "S", "D", "T">>>> >>,
        <<>>)

SeedPairs ==
    seedTradingPairs(
        << <<<<"B", "T", "C">>, <<"U", "S", "D", "T">>, "binance", RawBTC("binance")>>,
           <<<<"B", "T", "C">>, <<"U", "S", "D", "T">>, "kraken", RawBTC("kraken")>>,
           <<<<"E", "T", "H">>, <<"U", "S", "D", "T">>, "binance", RawETH("binance")>> >>,
        <<>>)

\* RefreshCache, the symbol rows: newSymbolCache
LoadSymbolCache(db) == [k \in DOMAIN db |-> db[k].token_id]

\* RefreshCache, the symbol rows: newNormalizedCache keeps, for a normalized symbol,
\* the token of the row that is read last
LoadNormalizedCaches(db) ==
    LET norms == {db[k].normalized_symbol : k \in DOMAIN db}
        ids   == {db[k].token_id : k \in DOMAIN db}
    IN  {f \in [norms -> ids] :
            \A n \in norms : \E k \in DOMAIN db :
                db[k].normalized_symbol = n /\ db[k].token_id = f[n]}

\* RefreshCache, the pair rows: newPairCache
LoadPairCache(db) ==
    [k \in DOMAIN db |->
        [BaseTokenID |-> db[k].base_token_id, QuoteTokenID |-> db[k].quote_token_id]]

\* the mapping tables and the caches of the resolver
ResolverState ==
    [dbSymbols |-> dbSymbols, dbPairs |-> dbPairs, symbolCache |-> symbolCache,
     pairCache |-> pairCache, normalizedCache |-> normalizedCache]

\* AddSymbolMapping returning nil: the upsert, then the two cache entries
AddSymbolMapping(st, tokenID, exchangeID, exchangeSymbol, normalizedSymbol) ==
    [st EXCEPT
        !.dbSymbols = UpsertSymbol(@, <<exchangeID, exchangeSymbol>>, tokenID, normalizedSymbol),
        !.symbolCache = (<<exchangeID, exchangeSymbol>> :> tokenID) @@ @,
        !.normalizedCache = (normalizedSymbol :> tokenID) @@ @]

\* AddTradingPair returning nil: the upsert, then the cache entry
AddTradingPair(st, baseTokenID, quoteTokenID, exchangeID, pairSymbol) ==
    [st EXCEPT
        !.dbPairs = UpsertPair(@, <<exchangeID, pairSymbol>>, baseTokenID, quoteTokenID),
        !.pairCache = (<<exchangeID, pairSymbol>> :>
                          [BaseTokenID |-> baseTokenID, QuoteTokenID |-> quoteTokenID]) @@ @]

\* ResolveSymbol: the cache, then fetchSymbolFromDB, then the normalized cache;
\* fromDB tells that the token id is written back to symbolCache
ResolveSymbol(exchangeID, symbol, dbErr) ==
    LET key        == <<exchangeID, symbol>>
        normalized == Resolver_normalizeSymbol(symbol)
    IN  IF key \in DOMAIN symbolCache
        THEN [id |-> symbolCache[key], err |-> FALSE, fromDB |-> FALSE]
        ELSE IF ~dbErr /\ key \in DOMAIN dbSymbols
        THEN [id |-> dbSymbols[key].token_id, err |-> FALSE, fromDB |-> TRUE]
        ELSE IF normalized \in DOMAIN normalizedCache
        THEN [id |-> normalizedCache[normalized], err |-> FALSE, fromDB |-> FALSE]
        ELSE [id |-> 0, err |-> TRUE, fromDB |-> FALSE]

\* GetTokenByNormalizedSymbol: the normalized cache, then the tokens table
GetTokenByNormalizedSymbol(symbol, dbErr) ==
    LET normalized == Resolver_normalizeSymbol(symbol)
    IN  IF normalized \in DOMAIN normalizedCache
        THEN [id |-> normalizedCache[normalized], err |-> FALSE]
        ELSE IF ~dbErr /\ TokenID(normalized) # 0
        THEN [id |-> TokenID(normalized), err |-> FALSE]
        ELSE [id |-> 0, err |-> TRUE]

\* tickers handed to resolveTickerTokenIDs
ResolverTickers ==
    {MakeTicker("binance", Raw(RawBTC("binance"), 100, 10)),
     MakeTicker("kucoin", Raw(RawETH("kucoin"), 120, 10)),
     MakeTicker("kraken", Raw(RawBTC("kraken"), 100, 10))}

PairKeyOf(t) == <<t.ExchangeID, t.Symbol>>

\* resolveTickerTokenIDs returns, leaving the ticker t
ResReturn(t) == ResIdle(t, res.calls, res.resolved)

\* resolveTickerTokenIDs returns after the per-symbol or the normalized lookups
ResReturnFallback(t) ==
    ResIdle(t, res.calls,
            IF t.BaseTokenID # 0 /\ t.QuoteTokenID # 0
            THEN (<<t.ExchangeID, t.Symbol>> :>
                     [BaseTokenID |-> t.BaseTokenID, QuoteTokenID |-> t.QuoteTokenID])
                 @@ res.resolved
            ELSE res.resolved)

\* what the resolver steps above the lock level leave alone
NotResolver == <<clients, pollVars, cycleVars, psIn, psOut, lockVars, det, ing>>

\* a worker calls resolveTickerTokenIDs(ticker)
Res_Call ==
    /\ res.pc = "idle"
    /\ res.calls < MaxResolves
    /\ \E t \in ResolverTickers :
          res' = [ResIdle(t, res.calls + 1, res.resolved) EXCEPT !.pc = "pair"]
    /\ UNCHANGED <<NotResolver, dbSymbols, dbPairs, symbolCache, pairCache, normalizedCache,
                   refresh, addsDone>>

\* ResolveTradingPair: pairCache, then fetchPairFromDB and the cache update
Res_Pair ==
    /\ res.pc = "pair"
    /\ LET key == PairKeyOf(res.ticker)
       IN  IF key \in DOMAIN pairCache
           THEN /\ res' = ResReturn([res.ticker EXCEPT
                                       !.BaseTokenID = pairCache[key].BaseTokenID,
                                       !.QuoteTokenID = pairCache[key].QuoteTokenID])
                /\ UNCHANGED pairCache
           ELSE \E dbErr \in BOOLEAN :
                  IF ~dbErr /\ key \in DOMAIN dbPairs
                  THEN /\ pairCache' = (key :> [BaseTokenID |-> dbPairs[key].base_token_id,
                                                QuoteTokenID |-> dbPairs[key].quote_token_id])
                                       @@ pairCache
                       /\ res' = ResReturn([res.ticker EXCEPT
                                              !.BaseTokenID = dbPairs[key].base_token_id,
                                              !.QuoteTokenID = dbPairs[key].quote_token_id])
                  ELSE /\ res' = [res EXCEPT !.pc = "pair_base",
                                             !.parsed = parsePairSymbol(res.ticker.Symbol)]
                       /\ UNCHANGED pairCache
    /\ UNCHANGED <<NotResolver, dbSymbols, dbPairs, symbolCache, normalizedCache, refresh,
                   addsDone>>

\* the symbol a call of ResolveSymbol is about
ResSymbolAt(pc) ==
    CASE pc = "pair_base"  -> res.parsed[1]
      [] pc = "pair_quote" -> res.parsed[2]
      [] pc = "base"       -> res.ticker.BaseSymbol
      [] pc = "quote"      -> res.ticker.QuoteSymbol

\* where the caller of ResolveSymbol goes on, with the ids and errors it holds
ResAfterSymbol(r) ==
    CASE res.pc = "pair_base" ->
             [res EXCEPT !.pc = "pair_quote", !.baseID = r.id, !.err1 = r.err]
      [] res.pc = "pair_quote" ->
             IF res.err1 \/ r.err
             THEN [res EXCEPT !.pc = "base", !.baseID = 0, !.quoteID = 0,
                              !.err1 = FALSE, !.err2 = FALSE]
             ELSE [res EXCEPT !.pc = "pair_store", !.quoteID = r.id, !.err2 = r.err]
      [] res.pc = "base" ->
             [res EXCEPT !.pc = "quote", !.baseID = r.id, !.err1 = r.err]
      [] res.pc = "quote" ->
             IF ~res.err1 /\ ~r.err
             THEN [res EXCEPT !.pc = "addpair_db", !.quoteID = r.id, !.err2 = r.err,
                              !.ticker.BaseTokenID = res.baseID,
                              !.ticker.QuoteTokenID = r.id]
             ELSE [res EXCEPT !.pc = "norm_base", !.quoteID = r.id, !.err2 = r.err]

\* ResolveSymbol, called by ResolveTradingPair for the parts of the pair symbol and
\* by resolveTickerTokenIDs for the ticker's base and quote symbol
Res_Symbol ==
    /\ res.pc \in {"pair_base", "pair_quote", "base", "quote"}
    /\ \E dbErr \in BOOLEAN :
          LET symbol == ResSymbolAt(res.pc)
              r      == ResolveSymbol(res.ticker.ExchangeID, symbol, dbErr)
          IN  /\ symbolCache' = IF r.fromDB
                                THEN (<<res.ticker.ExchangeID, symbol>> :> r.id) @@ symbolCache
                                ELSE symbolCache
              /\ res' = ResAfterSymbol(r)
    /\ UNCHANGED <<NotResolver, dbSymbols, dbPairs, pairCache, normalizedCache, refresh,
                   addsDone>>

\* ResolveTradingPair: the pair built from both symbols is cached and returned
Res_PairStore ==
    /\ res.pc = "pair_store"
    /\ pairCache' = (PairKeyOf(res.ticker) :>
                        [BaseTokenID |-> res.baseID, QuoteTokenID |-> res.quoteID]) @@ pairCache
    /\ res' = ResReturnFallback([res.ticker EXCEPT !.BaseTokenID = res.baseID,
                                           !.QuoteTokenID = res.quoteID])
    /\ UNCHANGED <<NotResolver, dbSymbols, dbPairs, symbolCache, normalizedCache, refresh,
                   addsDone>>

\* AddTradingPair: r.db.Exec of the upsert; an error returns
Res_AddTradingPairExec ==
    /\ res.pc = "addpair_db"
    /\ \/ /\ dbPairs' = UpsertPair(dbPairs, PairKeyOf(res.ticker),
                                   res.ticker.BaseTokenID, res.ticker.QuoteTokenID)
          /\ res' = [res EXCEPT !.pc = "addpair_cache"]
       \/ /\ res' = ResReturnFallback(res.ticker)
          /\ UNCHANGED dbPairs
    /\ UNCHANGED <<NotResolver, dbSymbols, symbolCache, pairCache, normalizedCache, refresh,
                   addsDone>>

\* AddTradingPair: the cache update under the lock, and return nil
Res_AddTradingPairCache ==
    /\ res.pc = "addpair_cache"
    /\ LET pair == [BaseTokenID |-> res.ticker.BaseTokenID,
                    QuoteTokenID |-> res.ticker.QuoteTokenID]
       IN  /\ pairCache' = (PairKeyOf(res.ticker) :> pair) @@ pairCache
           /\ addsDone' = [addsDone EXCEPT !.pairs = (PairKeyOf(res.ticker) :> pair) @@ @]
    /\ res' = ResReturnFallback(res.ticker)
    /\ UNCHANGED <<NotResolver, dbSymbols, dbPairs, symbolCache, normalizedCache, refresh>>

\* resolveTickerTokenIDs: GetTokenByNormalizedSymbol for a side ResolveSymbol failed on
Res_Normalized ==
    /\ res.pc \in {"norm_base", "norm_quote"}
    /\ LET base   == res.pc = "norm_base"
           failed == IF base THEN res.err1 ELSE res.err2
           symbol == IF base THEN res.ticker.BaseSymbol ELSE res.ticker.QuoteSymbol
           skip   == IF base THEN [res EXCEPT !.pc = "norm_quote"] ELSE ResReturnFallback(res.ticker)
       IN  IF ~failed THEN res' = skip
           ELSE \E dbErr \in BOOLEAN :
                  LET r == GetTokenByNormalizedSymbol(symbol, dbErr)
                  IN  res' = IF r.err THEN skip
                             ELSE IF base
                             THEN [res EXCEPT !.pc = "addbase_db", !.ticker.BaseTokenID = r.id]
                             ELSE [res EXCEPT !.pc = "addquote_db", !.ticker.QuoteTokenID = r.id]
    /\ UNCHANGED <<NotResolver, dbSymbols, dbPairs, symbolCache, pairCache, normalizedCache,
                   refresh, addsDone>>

\* the mapping AddSymbolMapping is called with: (id, ExchangeID, symbol, symbol)
ResMapping ==
    IF res.pc \in {"addbase_db", "addbase_cache"}
    THEN [key |-> <<res.ticker.ExchangeID, res.ticker.BaseSymbol>>,
          tokenID |-> res.ticker.BaseTokenID, normalizedSymbol |-> res.ticker.BaseSymbol]
    ELSE [key |-> <<res.ticker.ExchangeID, res.ticker.QuoteSymbol>>,
          tokenID |-> res.ticker.QuoteTokenID, normalizedSymbol |-> res.ticker.QuoteSymbol]

\* resolveTickerTokenIDs after AddSymbolMapping returned
ResAfterMapping ==
    IF res.pc \in {"addbase_db", "addbase_cache"}
    THEN [res EXCEPT !.pc = "norm_quote"]
    ELSE ResReturnFallback(res.ticker)

\* AddSymbolMapping: r.db.Exec of the upsert; an error returns
Res_AddSymbolMappingExec ==
    /\ res.pc \in {"addbase_db", "addquote_db"}
    /\ \/ /\ dbSymbols' = UpsertSymbol(dbSymbols, ResMapping.key, ResMapping.tokenID,
                                       ResMapping.normalizedSymbol)
          /\ res' = [res EXCEPT !.pc = IF res.pc = "addbase_db" THEN "addbase_cache"
                                       ELSE "addquote_cache"]
       \/ /\ res' = ResAfterMapping
          /\ UNCHANGED dbSymbols
    /\ UNCHANGED <<NotResolver, dbPairs, symbolCache, pairCache, normalizedCache, refresh,
                   addsDone>>

\* AddSymbolMapping: the cache update under the lock, and return nil
Res_AddSymbolMappingCache ==
    /\ res.pc \in {"addbase_cache", "addquote_cache"}
    /\ symbolCache' = (ResMapping.key :> ResMapping.tokenID) @@ symbolCache
    /\ normalizedCache' = (ResMapping.normalizedSymbol :> ResMapping.tokenID) @@ normalizedCache
    /\ addsDone' = [addsDone EXCEPT !.symbols = (ResMapping.key :> ResMapping.tokenID) @@ @]
    /\ res' = ResAfterMapping
    /\ UNCHANGED <<NotResolver, dbSymbols, dbPairs, pairCache, refresh>>

\* RefreshCache: the query of token_exchange_symbols and the new symbol maps
Refresh_Symbols ==
    /\ refresh.pc = "idle"
    /\ refresh.runs < MaxRefresh
    /\ \/ refresh' = RefreshIdle(refresh.runs + 1)
       \/ \E f \in LoadNormalizedCaches(dbSymbols) :
             refresh' = [refresh EXCEPT !.pc = "pairs",
                                        !.newSymbolCache = LoadSymbolCache(dbSymbols),
                                        !.newNormalizedCache = f]
    /\ UNCHANGED <<NotResolver, dbSymbols, dbPairs, symbolCache, pairCache, normalizedCache,
                   res, addsDone>>

\* a refresh that installs the symbol maps it has built when the pair query fails
Refresh_PairsPartialSwap ==
    /\ refresh.pc = "pairs"
    /\ \/ /\ refresh' = RefreshIdle(refresh.runs + 1)
          /\ symbolCache' = refresh.newSymbolCache
          /\ normalizedCache' = refresh.newNormalizedCache
       \/ /\ refresh' = [refresh EXCEPT !.pc = "swap", !.newPairCache = LoadPairCache(dbPairs)]
          /\ UNCHANGED <<symbolCache, normalizedCache>>
    /\ UNCHANGED <<NotResolver, dbSymbols, dbPairs, pairCache, res, addsDone>>
\* RefreshCache: the query of trading_pairs and the new pair map
Refresh_Pairs ==
    /\ refresh.pc = "pairs"
    /\ \/ refresh' = RefreshIdle(refresh.runs + 1)
       \/ refresh' = [refresh EXCEPT !.pc = "swap", !.newPairCache = LoadPairCache(dbPairs)]
    /\ UNCHANGED <<NotResolver, dbSymbols, dbPairs, symbolCache, pairCache, normalizedCache,
                   res, addsDone>>

\* RefreshCache: "Update caches atomically", under the lock
Refresh_Swap ==
    /\ refresh.pc = "swap"
    /\ symbolCache' = refresh.newSymbolCache
    /\ pairCache' = refresh.newPairCache
    /\ normalizedCache' = refresh.newNormalizedCache
    /\ refresh' = RefreshIdle(refresh.runs + 1)
    /\ UNCHANGED <<NotResolver, dbSymbols, dbPairs, res, addsDone>>

\* NewResolver on the migrated database, before or after seed-symbols; the initial
\* RefreshCache loaded the caches or failed
InitRes ==
    /\ clients \in CalcConfigs
    /\ PollInit(clients)
    /\ LoopInit
    /\ psIn = <<>>
    /\ psOut = <<>>
    /\ \E seeded \in BOOLEAN :
          /\ dbSymbols = IF seeded THEN SeedSymbols ELSE <<>>
          /\ dbPairs = IF seeded THEN SeedPairs ELSE <<>>
    /\ \/ /\ symbolCache = <<>>
          /\ normalizedCache = <<>>
          /\ pairCache = <<>>
       \/ /\ symbolCache = LoadSymbolCache(dbSymbols)
          /\ normalizedCache \in LoadNormalizedCaches(dbSymbols)
          /\ pairCache = LoadPairCache(dbPairs)
    /\ refresh = RefreshIdle(0)
    /\ res = ResIdle(<<>>, 0, <<>>)
    /\ addsDone = NoAdds
    /\ mu = Unlocked
    /\ gor = <<>>
    /\ det = DetIdle
    /\ ing = IngIdle

NextRes ==
    \/ Res_Call
    \/ Res_Pair
    \/ Res_Symbol
    \/ Res_PairStore
    \/ Res_AddTradingPairExec
    \/ Res_AddTradingPairCache
    \/ Res_Normalized
    \/ Res_AddSymbolMappingExec
    \/ Res_AddSymbolMappingCache
    \/ Refresh_Symbols
    \/ Refresh_Pairs
    \/ Refresh_Swap

SpecRes == InitRes /\ [][NextRes]_vars

\* ---------------------------------------------------------------------------
\* The resolver's methods lock by lock: the goroutines pollExchanges starts, one
\* per exchange client, call ResolveSymbol, GetTokenByNormalizedSymbol and
\* AddSymbolMapping for a base symbol while startBackgroundRefresh runs RefreshCache
\* ---------------------------------------------------------------------------

\* the exchange whose client each polling goroutine serves
LockWorkers == {"binance", "kucoin"}

\* base symbols of the tickers the goroutines resolve
LockSymbols == {<<"B", "T", "C">>, <<"E", "T", "H">>}

\* the goroutine of startBackgroundRefresh
Refresher == "refresh"

GorIdle(calls) == [pc |-> "idle", symbol |-> <<>>, id |-> 0, ok |-> FALSE, calls |-> calls]

\* what the lock-level steps leave alone
NotLock == <<clients, pollVars, cycleVars, psIn, psOut, dbPairs, pairCache, res, addsDone, det,
            ing>>

\* resolveTickerTokenIDs calls ResolveSymbol for the base symbol of a ticker
Lock_Call(g) ==
    /\ gor[g].pc = "idle"
    /\ gor[g].calls < MaxLockCalls
    /\ \E sym \in LockSymbols :
          gor' = [gor EXCEPT ![g] = [GorIdle(gor[g].calls + 1) EXCEPT
                                         !.pc = "rs_rlock", !.symbol = sym]]
    /\ UNCHANGED <<NotLock, dbSymbols, symbolCache, normalizedCache, refresh, mu>>

\* r.mu.RLock() of ResolveSymbol and of GetTokenByNormalizedSymbol
Lock_RLock(g) ==
    /\ gor[g].pc \in {"rs_rlock", "gt_rlock"}
    /\ mu.writer = ""
    /\ mu' = [mu EXCEPT !.readers = @ \cup {g}]
    /\ gor' = [gor EXCEPT ![g].pc = IF gor[g].pc = "rs_rlock" THEN "rs_read" ELSE "gt_read"]
    /\ UNCHANGED <<NotLock, dbSymbols, symbolCache, normalizedCache, refresh>>

\* ResolveSymbol: the lookup in r.symbolCache
Lock_ReadSymbolCache(g) ==
    /\ gor[g].pc = "rs_read"
    /\ LET key == <<g, gor[g].symbol>>
       IN  gor' = [gor EXCEPT ![g].pc = "rs_runlock",
                              ![g].ok = key \in DOMAIN symbolCache,
                              ![g].id = IF key \in DOMAIN symbolCache
                                        THEN symbolCache[key] ELSE 0]
    /\ UNCHANGED <<NotLock, dbSymbols, symbolCache, normalizedCache, refresh, mu>>

\* r.mu.RUnlock(), then the return of the hit or the way to the database
Lock_RUnlock(g) ==
    /\ gor[g].pc \in {"rs_runlock", "gt_runlock"}
    /\ mu' = [mu EXCEPT !.readers = @ \ {g}]
    /\ gor' = [gor EXCEPT ![g].pc =
                  IF gor[g].pc = "rs_runlock"
                  THEN IF gor[g].ok THEN "idle" ELSE "rs_db"
                  ELSE IF gor[g].ok THEN "as_exec" ELSE "gt_db"]
    /\ UNCHANGED <<NotLock, dbSymbols, symbolCache, normalizedCache, refresh>>

\* ResolveSymbol: fetchSymbolFromDB
Lock_FetchSymbolFromDB(g) ==
    /\ gor[g].pc = "rs_db"
    /\ LET key == <<g, gor[g].symbol>>
       IN  \/ gor' = [gor EXCEPT ![g].pc = "rs_normalized"]
           \/ /\ key \in DOMAIN dbSymbols
              /\ gor' = [gor EXCEPT ![g].pc = "rs_lock", ![g].id = dbSymbols[key].token_id]
    /\ UNCHANGED <<NotLock, dbSymbols, symbolCache, normalizedCache, refresh, mu>>

\* ResolveSymbol: "Try normalized lookup as fallback", r.normalizedCache read with
\* no lock held. The read sees the map as it is; when AddSymbolMapping of another
\* goroutine is writing that map, the Go runtime may also stop the process
\* ("concurrent map read and map write").
Lock_ReadNormalizedFallback(g) ==
    /\ gor[g].pc = "rs_normalized"
    /\ LET normalized == Resolver_normalizeSymbol(gor[g].symbol)
       IN  \/ gor' = [gor EXCEPT ![g].pc = IF normalized \in DOMAIN normalizedCache
                                           THEN "idle" ELSE "gt_rlock",
                                 ![g].id = IF normalized \in DOMAIN normalizedCache
                                           THEN normalizedCache[normalized] ELSE 0]
           \/ /\ \E h \in LockWorkers \ {g} : gor[h].pc = "as_write"
              /\ gor' = [gor EXCEPT ![g].pc = "fatal"]
    /\ UNCHANGED <<NotLock, dbSymbols, symbolCache, normalizedCache, refresh, mu>>

\* r.mu.Lock() of ResolveSymbol and of AddSymbolMapping
Lock_Lock(g) ==
    /\ gor[g].pc \in {"rs_lock", "as_lock"}
    /\ mu = Unlocked
    /\ mu' = [mu EXCEPT !.writer = g]
    /\ gor' = [gor EXCEPT ![g].pc = IF gor[g].pc = "rs_lock" THEN "rs_write" ELSE "as_write"]
    /\ UNCHANGED <<NotLock, dbSymbols, symbolCache, normalizedCache, refresh>>

\* ResolveSymbol: "Update cache"
Lock_WriteSymbolCache(g) ==
    /\ gor[g].pc = "rs_write"
    /\ symbolCache' = (<<g, gor[g].symbol>> :> gor[g].id) @@ symbolCache
    /\ gor' = [gor EXCEPT ![g].pc = "rs_unlock"]
    /\ UNCHANGED <<NotLock, dbSymbols, normalizedCache, refresh, mu>>

\* r.mu.Unlock(), then the return
Lock_Unlock(g) ==
    /\ gor[g].pc \in {"rs_unlock", "as_unlock"}
    /\ mu' = [mu EXCEPT !.writer = ""]
    /\ gor' = [gor EXCEPT ![g].pc = "idle"]
    /\ UNCHANGED <<NotLock, dbSymbols, symbolCache, normalizedCache, refresh>>

\* GetTokenByNormalizedSymbol: the lookup in r.normalizedCache
Lock_ReadNormalizedCache(g) ==
    /\ gor[g].pc = "gt_read"
    /\ LET normalized == Resolver_normalizeSymbol(gor[g].symbol)
       IN  gor' = [gor EXCEPT ![g].pc = "gt_runlock",
                              ![g].ok = normalized \in DOMAIN normalizedCache,
                              ![g].id = IF normalized \in DOMAIN normalizedCache
                                        THEN normalizedCache[normalized] ELSE 0]
    /\ UNCHANGED <<NotLock, dbSymbols, symbolCache, normalizedCache, refresh, mu>>

\* GetTokenByNormalizedSymbol: the query of tokens
Lock_QueryTokens(g) ==
    /\ gor[g].pc = "gt_db"
    /\ LET normalized == Resolver_normalizeSymbol(gor[g].symbol)
       IN  \/ gor' = [gor EXCEPT ![g].pc = "idle"]
           \/ /\ TokenID(normalized) # 0
              /\ gor' = [gor EXCEPT ![g].pc = "as_exec", ![g].id = TokenID(normalized)]
    /\ UNCHANGED <<NotLock, dbSymbols, symbolCache, normalizedCache, refresh, mu>>

\* AddSymbolMapping: the upsert
Lock_AddSymbolMappingExec(g) ==
    /\ gor[g].pc = "as_exec"
    /\ \/ /\ gor' = [gor EXCEPT ![g].pc = "idle"]
          /\ UNCHANGED dbSymbols
       \/ /\ dbSymbols' = UpsertSymbol(dbSymbols, <<g, gor[g].symbol>>, gor[g].id,
                                       gor[g].symbol)
          /\ gor' = [gor EXCEPT ![g].pc = "as_lock"]
    /\ UNCHANGED <<NotLock, symbolCache, normalizedCache, refresh, mu>>

\* AddSymbolMapping: "Update cache"
Lock_AddSymbolMappingWrite(g) ==
    /\ gor[g].pc = "as_write"
    /\ symbolCache' = (<<g, gor[g].symbol>> :> gor[g].id) @@ symbolCache
    /\ normalizedCache' = (gor[g].symbol :> gor[g].id) @@ normalizedCache
    /\ gor' = [gor EXCEPT ![g].pc = "as_unlock"]
    /\ UNCHANGED <<NotLock, dbSymbols, refresh, mu>>

\* RefreshCache: r.mu.Lock() after the two queries
Lock_RefreshLock ==
    /\ refresh.pc = "swap"
    /\ mu = Unlocked
    /\ mu' = [mu EXCEPT !.writer = Refresher]
    /\ refresh' = [refresh EXCEPT !.pc = "locked"]
    /\ UNCHANGED <<NotLock, dbSymbols, symbolCache, normalizedCache, gor>>

\* RefreshCache: the three assignments, then r.mu.Unlock()
Lock_RefreshSwap ==
    /\ refresh.pc = "locked"
    /\ symbolCache' = refresh.newSymbolCache
    /\ pairCache' = refresh.newPairCache
    /\ normalizedCache' = refresh.newNormalizedCache
    /\ mu' = [mu EXCEPT !.writer = ""]
    /\ refresh' = RefreshIdle(refresh.runs + 1)
    /\ UNCHANGED <<clients, pollVars, cycleVars, psIn, psOut, dbSymbols, dbPairs, res,
                   addsDone, gor, det, ing>>

\* NewResolver as in InitRes, the polling goroutines not yet in the resolver
InitLock ==
    /\ clients \in CalcConfigs
    /\ PollInit(clients)
    /\ LoopInit
    /\ psIn = <<>>
    /\ psOut = <<>>
    /\ \E seeded \in BOOLEAN :
          /\ dbSymbols = IF seeded THEN SeedSymbols ELSE <<>>
          /\ dbPairs = IF seeded THEN SeedPairs ELSE <<>>
    /\ \/ /\ symbolCache = <<>>
          /\ normalizedCache = <<>>
          /\ pairCache = <<>>
       \/ /\ symbolCache = LoadSymbolCache(dbSymbols)
          /\ normalizedCache \in LoadNormalizedCaches(dbSymbols)
          /\ pairCache = LoadPairCache(dbPairs)
    /\ refresh = RefreshIdle(0)
    /\ res = ResIdle(<<>>, 0, <<>>)
    /\ addsDone = NoAdds
    /\ mu = Unlocked
    /\ gor = [g \in LockWorkers |-> GorIdle(0)]
    /\ det = DetIdle
    /\ ing = IngIdle

NextLock ==
    \/ \E g \in LockWorkers :
          \/ Lock_Call(g)
          \/ Lock_RLock(g)
          \/ Lock_ReadSymbolCache(g)
          \/ Lock_RUnlock(g)
          \/ Lock_FetchSymbolFromDB(g)
          \/ Lock_ReadNormalizedFallback(g)
          \/ Lock_Lock(g)
          \/ Lock_WriteSymbolCache(g)
          \/ Lock_Unlock(g)
          \/ Lock_ReadNormalizedCache(g)
          \/ Lock_QueryTokens(g)
          \/ Lock_AddSymbolMappingExec(g)
          \/ Lock_AddSymbolMappingWrite(g)
    \/ Refresh_Symbols
    \/ Refresh_Pairs
    \/ Lock_RefreshLock
    \/ Lock_RefreshSwap

SpecLock == InitLock /\ [][NextLock]_vars

\* ---------------------------------------------------------------------------
\* outlier.Detector: DetectOutliers over the latest price of each exchange for a
\* token pair, and the mapping rows of token_exchange_symbols
\* ---------------------------------------------------------------------------

\* values of the column mapping_method
MappingMethods == {"manual", "symbol", "slug", "fuzzy"}

\* a mapping row with the given method
MappingRow(tokenID, normalizedSymbol, method) ==
    [token_id |-> tokenID, normalized_symbol |-> normalizedSymbol,
     mapping_method |-> method,
     confidence_score |-> DefaultConfidenceScore,
     needs_verification |-> DefaultNeedsVerification]

\* token_exchange_symbols as the detector finds it: one row for BTC on binance and
\* on kucoin, on kraken the row XBT and possibly a second row BTC for the same token
DetTables ==
    {(<<"binance", <<"B", "T", "C">>>> :> MappingRow(1, <<"B", "T", "C">>, m1))
       @@ (<<"kucoin", <<"B", "T", "C">>>> :> MappingRow(1, <<"B", "T", "C">>, m2))
       @@ (<<"kraken", <<"X", "B", "T">>>> :> MappingRow(1, <<"B", "T", "C">>, m3))
       @@ (IF m4 = "" THEN <<>>
           ELSE <<"kraken", <<"B", "T", "C">>>> :> MappingRow(1, <<"B", "T", "C">>, m4)) :
        m1 \in {"manual", "symbol"}, m2 \in MappingMethods, m3 \in MappingMethods,
        m4 \in {"", "manual", "symbol"}}

\* latest prices of BTC/USDT the exchanges may have stored (0: no row in the window)
DetPrices == {0, 100, 104, 200}

DetExchanges == <<"binance", "kucoin", "kraken">>

\* exchange symbols of the rows that map a token of an exchange
MappingSymbols(exchangeID, tokenID) ==
    {k[2] : k \in {k \in DOMAIN dbSymbols :
                      k[1] = exchangeID /\ dbSymbols[k].token_id = tokenID}}

\* PricePoint; via: the exchange symbol whose mapping gave the stored ticker its
\* base token id
PricePoint(exchangeID, baseTokenID, quoteTokenID, price, via) ==
    [ExchangeID |-> exchangeID, BaseTokenID |-> baseTokenID, QuoteTokenID |-> quoteTokenID,
     Price |-> price, via |-> via]

\* groupByPair: the price points of the key "base-quote", in the order of the rows
groupByPair(prices, baseTokenID, quoteTokenID) ==
    SelectSeq(prices, LAMBDA p : p.BaseTokenID = baseTokenID /\ p.QuoteTokenID = quoteTokenID)

\* getMappingMethod: the method of one row of the exchange and token (LIMIT 1 with
\* no ORDER BY: any of them), "unknown" when there is none or the query fails
getMappingMethod(exchangeID, tokenID) ==
    {dbSymbols[<<exchangeID, sym>>].mapping_method : sym \in MappingSymbols(exchangeID, tokenID)}
    \cup {"unknown"}

\* the test of detectPairOutliers for the price at index i: more than 5 percent off
\* the mean, or more than 2 standard deviations (mean = sum / n, variance =
\* sumSquares / n - mean * mean; compared without the float64 rounding)
IsOutlier(prices, i) ==
    LET n          == Len(prices)
        sum        == SumSeq([j \in 1..n |-> prices[j].Price])
        sumSquares == SumSeq([j \in 1..n |-> prices[j].Price * prices[j].Price])
        deviationN == Abs(prices[i].Price * n - sum)
        varianceNN == n * sumSquares - sum * sum
    IN  \/ deviationN * 100 > 5 * sum
        \/ varianceNN > 0 /\ deviationN * deviationN > 4 * varianceNN

\* an outlier that passes the mapping method given to it although it is not "symbol"
detectPairOutliersAnyMethod(prices, methods) ==
    LET n    == Len(prices)
        sum  == SumSeq([j \in 1..n |-> prices[j].Price])
        mark == [i \in 1..n |->
                    [ExchangeID |-> prices[i].ExchangeID, BaseTokenID |-> prices[i].BaseTokenID,
                     QuoteTokenID |-> prices[i].QuoteTokenID, ExchangePrice |-> prices[i].Price,
                     AveragePrice |-> DecDiv(sum, n), MappingMethod |-> methods[i],
                     via |-> prices[i].via, flagged |-> n >= 2 /\ IsOutlier(prices, i)]]
    IN  SelectSeq(mark, LAMBDA o : o.flagged)
\* detectPairOutliers: the outliers of one pair; methods[i] is what getMappingMethod
\* returns for prices[i]
detectPairOutliers(prices, methods) ==
    LET n    == Len(prices)
        sum  == SumSeq([j \in 1..n |-> prices[j].Price])
        mark == [i \in 1..n |->
                    [ExchangeID |-> prices[i].ExchangeID, BaseTokenID |-> prices[i].BaseTokenID,
                     QuoteTokenID |-> prices[i].QuoteTokenID, ExchangePrice |-> prices[i].Price,
                     AveragePrice |-> DecDiv(sum, n), MappingMethod |-> methods[i],
                     via |-> prices[i].via,
                     flagged |-> n >= 2 /\ IsOutlier(prices, i) /\ methods[i] = "symbol"]]
    IN  SelectSeq(mark, LAMBDA o : o.flagged)

\* DetectOutliers: fetchRecentPrices, one row per exchange that stored a price of
\* the pair in the window, or the error of the query
Det_Fetch ==
    /\ det.pc = "idle"
    /\ \/ det' = DetIdle
       \/ \E via \in [1..Len(DetExchanges) -> {<<"B", "T", "C">>, <<"X", "B", "T">>}] :
             /\ \A i \in 1..Len(DetExchanges) : via[i] \in MappingSymbols(DetExchanges[i], 1)
             /\ \E latest \in [1..Len(DetExchanges) -> DetPrices] :
                   LET rows == [i \in 1..Len(DetExchanges) |->
                                   PricePoint(DetExchanges[i], 1, 3, latest[i], via[i])]
                   IN  det' = [DetIdle EXCEPT
                                  !.pc = "fetched",
                                  !.prices = SelectSeq(rows, LAMBDA p : p.Price > 0)]
    /\ UNCHANGED <<clients, pollVars, cycleVars, psIn, psOut, dbSymbols, dbPairs, symbolCache,
                   pairCache, normalizedCache, refresh, res, addsDone, lockVars, ing>>

\* DetectOutliers: groupByPair and detectPairOutliers for the pairs with two prices
\* or more
Det_Detect ==
    /\ det.pc = "fetched"
    /\ LET prices == groupByPair(det.prices, 1, 3)
       IN  \E methods \in [1..Len(prices) -> MappingMethods \cup {"unknown"}] :
              /\ \A i \in 1..Len(prices) :
                    methods[i] \in getMappingMethod(prices[i].ExchangeID, prices[i].BaseTokenID)
              /\ det' = [det EXCEPT
                            !.pc = "detected",
                            !.outliers = IF Len(prices) < 2 THEN <<>>
                                         ELSE detectPairOutliers(prices, methods)]
    /\ UNCHANGED <<clients, pollVars, cycleVars, psIn, psOut, dbSymbols, dbPairs, symbolCache,
                   pairCache, normalizedCache, refresh, res, addsDone, lockVars, ing>>

\* storeOutliers: one transaction; it adds every outlier, or none when Begin,
\* Prepare, an Exec or Commit fails
Det_Store ==
    /\ det.pc = "detected"
    /\ \E ok \in BOOLEAN :
          det' = [det EXCEPT !.pc = "idle", !.stored = IF ok THEN det.outliers ELSE <<>>]
    /\ UNCHANGED <<clients, pollVars, cycleVars, psIn, psOut, dbSymbols, dbPairs, symbolCache,
                   pairCache, normalizedCache, refresh, res, addsDone, lockVars, ing>>

\* NewDetector; no exchange client is involved
InitDet ==
    /\ clients = <<>>
    /\ PollInit(clients)
    /\ LoopInit
    /\ psIn = <<>>
    /\ psOut = <<>>
    /\ dbSymbols \in DetTables
    /\ dbPairs = <<>>
    /\ symbolCache = <<>>
    /\ normalizedCache = <<>>
    /\ pairCache = <<>>
    /\ refresh = RefreshIdle(0)
    /\ res = ResIdle(<<>>, 0, <<>>)
    /\ addsDone = NoAdds
    /\ mu = Unlocked
    /\ gor = <<>>
    /\ det = DetIdle
    /\ ing = IngIdle

NextDet ==
    \/ Det_Fetch
    \/ Det_Detect
    \/ Det_Store

SpecDet == InitDet /\ [][NextDet]_vars

----------------------------------------------------------------------------
(* Resolver.normalizeSymbol on the spellings of a symbol *)

\* every letter case of a spelling
RECURSIVE CaseVariants(_)
CaseVariants(s) ==
    IF s = <<>> THEN {<<>>}
    ELSE {<<c>> \o v : c \in {UpperChar(Head(s)), LowerChar(Head(s))},
                       v \in CaseVariants(Tail(s))}

\* vendor spellings of BTC, and token symbols of seed_tokens.sql
VendorSpellings == {<<"X", "B", "T">>, <<"X", "X", "B", "T">>, <<"t", "B", "T", "C">>}
TokenSymbols ==
    {<<"B", "T", "C">>, <<"E", "T", "H">>, <<"U", "S", "D", "T">>, <<"X", "R", "P">>}

InitNorm ==
    /\ clients = <<>>
    /\ PollInit(clients)
    /\ LoopInit
    /\ psIn \in UNION {CaseVariants(s) : s \in VendorSpellings \cup TokenSymbols}
    /\ psOut = <<>>
    /\ ResolverIdle

\* GetTokenByNormalizedSymbol: normalized := r.normalizeSymbol(symbol)
Norm_Call ==
    /\ psOut = <<>>
    /\ psOut' = [normalized |-> Resolver_normalizeSymbol(psIn)]
    /\ UNCHANGED <<clients, pollVars, cycleVars, psIn, resVars>>

NextNorm == Norm_Call

SpecNorm == InitNorm /\ [][NextNorm]_vars

----------------------------------------------------------------------------
(* internal/ingester/binance.go: BinanceIngester *)

maxReconnectAttempts == 10

NotIng == <<clients, pollVars, cycleVars, psIn, psOut, dbSymbols, dbPairs, symbolCache,
            pairCache, normalizedCache, refresh, res, addsDone, lockVars, det>>

\* Start: isRunning, go processBatches(), go connectWithRetry()
Ing_Start ==
    /\ ~ing.started
    /\ ~ing.isRunning
    /\ ing' = [ing EXCEPT !.started = TRUE, !.isRunning = TRUE,
                          !.timer.pc = "select", !.conn.pc = "loop"]
    /\ UNCHANGED NotIng

\* connectWithRetry: the select at the top of the loop
Ing_ConnLoop ==
    /\ ing.conn.pc = "loop"
    /\ ing' = [ing EXCEPT !.conn.pc = IF ing.cancelled THEN "exit" ELSE "dial"]
    /\ UNCHANGED NotIng

\* connect: dialer.Dial fails, or succeeds and bi.wsConn = conn
Ing_Dial ==
    /\ ing.conn.pc = "dial"
    /\ \/ ing' = [ing EXCEPT !.conn.pc = "failed", !.failedInARow = @ + 1]
       \/ ing' = [ing EXCEPT !.conn.pc = "reading", !.wsConn = "open",
                             !.failedInARow = 0]
    /\ UNCHANGED NotIng

\* readMessages: the select at the top of the loop; on ctx.Done() connect
\* returns nil and connectWithRetry sets reconnectAttempts = 0
Ing_ReadLoop ==
    /\ ing.conn.pc = "reading"
    /\ ing' = IF ing.cancelled
              THEN [ing EXCEPT !.conn.pc = "loop", !.reconnectAttempts = 0]
              ELSE [ing EXCEPT !.conn.pc = "read"]
    /\ UNCHANGED NotIng

\* readMessages: ReadMessage returns a trade event, processMessage parses it
Ing_ReadTrade ==
    /\ ing.conn.pc = "read"
    /\ ing.wsConn = "open"
    /\ ing.received < MaxTrades
    /\ ing' = [ing EXCEPT !.received = @ + 1,
                          !.conn = [pc |-> "add", trade |-> ing.received + 1]]
    /\ UNCHANGED NotIng

\* readMessages: a message processMessage cannot parse is logged
Ing_ReadBad ==
    /\ ing.conn.pc = "read"
    /\ ing.wsConn = "open"
    /\ ing' = [ing EXCEPT !.conn.pc = "reading"]
    /\ UNCHANGED NotIng

\* readMessages: ReadMessage returns an error (the connection was closed by
\* Stop, or dropped); connect returns it
Ing_ReadError ==
    /\ ing.conn.pc = "read"
    /\ ing' = [ing EXCEPT !.conn.pc = "failed", !.wsConn = "closed"]
    /\ UNCHANGED NotIng

\* addToBatch, under batchMutex: append, and go flushBatch() when the batch is full
Ing_AddToBatch ==
    /\ ing.conn.pc = "add"
    /\ ing' = [ing EXCEPT
                 !.tradeBatch = Append(@, ing.conn.trade),
                 !.flushers = IF Len(ing.tradeBatch) + 1 >= MaxBatch
                              THEN Append(@, [pc |-> "flush", batch |-> <<>>])
                              ELSE @,
                 !.conn = [pc |-> "reading", trade |-> 0]]
    /\ UNCHANGED NotIng

\* connectWithRetry: err != nil: reconnectAttempts++, give up or back off
Ing_ConnFailed ==
    /\ ing.conn.pc = "failed"
    /\ ing' = [ing EXCEPT
                 !.reconnectAttempts = @ + 1,
                 !.conn.pc = IF ing.reconnectAttempts + 1 > maxReconnectAttempts
                             THEN "gaveup" ELSE "backoff"]
    /\ UNCHANGED NotIng

\* connectWithRetry: select on time.After(delay) and ctx.Done()
Ing_Backoff ==
    /\ ing.conn.pc = "backoff"
    /\ \/ ing' = [ing EXCEPT !.conn.pc = "loop"]
       \/ /\ ing.cancelled
          /\ ing' = [ing EXCEPT !.conn.pc = "exit"]
    /\ UNCHANGED NotIng

\* flushBatch whose copy leaves the pending trades in place
flushBatchKeepsPending(pending) == [batch |-> pending, tradeBatch |-> pending]
\* flushBatch, under batchMutex: batch is a copy, bi.tradeBatch = bi.tradeBatch[:0]
flushBatch(pending) == [batch |-> pending, tradeBatch |-> <<>>]

\* flushBatch up to the unlock, for the goroutine f; ret: where f goes on return
FlushTake(f, ret) ==
    IF ing.tradeBatch = <<>> THEN [f EXCEPT !.pc = ret]
    ELSE [f EXCEPT !.pc = "insert", !.batch = flushBatch(ing.tradeBatch).batch]

FlushLeaves == IF ing.tradeBatch = <<>> THEN <<>> ELSE flushBatch(ing.tradeBatch).tradeBatch

\* processBatches: the select takes a tick of the 5 s ticker
Ing_TimerTick ==
    /\ ing.timer.pc = "select"
    /\ ing.timer.ticks < MaxFlushTicks
    /\ ing' = [ing EXCEPT !.timer.pc = "flush", !.timer.ticks = @ + 1]
    /\ UNCHANGED NotIng

\* processBatches: the select takes ctx.Done()
Ing_TimerExit ==
    /\ ing.timer.pc = "select"
    /\ ing.cancelled
    /\ ing' = [ing EXCEPT !.timer.pc = "exit"]
    /\ UNCHANGED NotIng

Ing_TimerTake ==
    /\ ing.timer.pc = "flush"
    /\ ing' = [ing EXCEPT !.timer = FlushTake(@, "select"), !.tradeBatch = FlushLeaves]
    /\ UNCHANGED NotIng

\* flushBatch: db.InsertTrades(bi.conn, batch); an error is logged
Ing_TimerInsert ==
    /\ ing.timer.pc = "insert"
    /\ ing' = [ing EXCEPT !.inserted = Append(@, ing.timer.batch),
                          !.timer = [@ EXCEPT !.pc = "select", !.batch = <<>>]]
    /\ UNCHANGED NotIng

\* the goroutines addToBatch started
Ing_FlusherTake(i) ==
    /\ ing.flushers[i].pc = "flush"
    /\ ing' = [ing EXCEPT !.flushers[i] = FlushTake(@, "done"), !.tradeBatch = FlushLeaves]
    /\ UNCHANGED NotIng

Ing_FlusherInsert(i) ==
    /\ ing.flushers[i].pc = "insert"
    /\ ing' = [ing EXCEPT !.inserted = Append(@, ing.flushers[i].batch),
                          !.flushers[i] = [pc |-> "done", batch |-> <<>>]]
    /\ UNCHANGED NotIng

\* Stop: return if not running; isRunning = false; bi.cancel()
Ing_Stop ==
    /\ ing.stop.pc = "idle"
    /\ ing' = IF ing.isRunning
              THEN [ing EXCEPT !.isRunning = FALSE, !.cancelled = TRUE, !.stop.pc = "close"]
              ELSE [ing EXCEPT !.stop.pc = "notrunning"]
    /\ UNCHANGED NotIng

\* Stop: if bi.wsConn != nil { bi.wsConn.Close() }
Ing_StopClose ==
    /\ ing.stop.pc = "close"
    /\ ing' = [ing EXCEPT !.wsConn = IF @ = "nil" THEN "nil" ELSE "closed",
                          !.stop.pc = "flush"]
    /\ UNCHANGED NotIng

\* Stop: bi.flushBatch()
Ing_StopTake ==
    /\ ing.stop.pc = "flush"
    /\ ing' = [ing EXCEPT !.stop = FlushTake(@, "returned"), !.tradeBatch = FlushLeaves]
    /\ UNCHANGED NotIng

Ing_StopInsert ==
    /\ ing.stop.pc = "insert"
    /\ ing' = [ing EXCEPT !.inserted = Append(@, ing.stop.batch),
                          !.stop = [pc |-> "returned", batch |-> <<>>]]
    /\ UNCHANGED NotIng

InitIng ==
    /\ clients = <<>>
    /\ PollInit(clients)
    /\ LoopInit
    /\ ParseIdle

NextIng ==
    \/ Ing_Start
    \/ Ing_ConnLoop
    \/ Ing_Dial
    \/ Ing_ReadLoop
    \/ Ing_ReadTrade
    \/ Ing_ReadBad
    \/ Ing_ReadError
    \/ Ing_AddToBatch
    \/ Ing_ConnFailed
    \/ Ing_Backoff
    \/ Ing_TimerTick
    \/ Ing_TimerExit
    \/ Ing_TimerTake
    \/ Ing_TimerInsert
    \/ \E i \in 1..Len(ing.flushers) : Ing_FlusherTake(i)
    \/ \E i \in 1..Len(ing.flushers) : Ing_FlusherInsert(i)
    \/ Ing_Stop
    \/ Ing_StopClose
    \/ Ing_StopTake
    \/ Ing_StopInsert

SpecIng == InitIng /\ [][NextIng]_vars

----------------------------------------------------------------------------
(* Properties *)

\* C1: every VWAP result that is computed and stored has exchange_count >= 2;
\* a pair priced by fewer than two exchanges produces no result.
C1_ExchangeCountAtLeast2 ==
    /\ \A k \in DOMAIN vwapResults : vwapResults[k].ExchangeCount >= 2
    /\ \A k \in DOMAIN vwapStore : vwapStore[k].exchange_count >= 2

C3_RetriedOnThirdTick ==
    \A e \in DOMAIN clients : skipStreak[e] <= 2

FetchFailures == {"neterr", "status", "readerr", "decode"}

\* C4: a poll cycle in which the fetch of an adapter failed leaves its count of
\* consecutive errors exactly one above the count it had when the cycle began.
C4_FailedTickAddsOne ==
    \A e \in DOMAIN clients :
        (workers[e].pc = "done" /\ fetchResult[e] \in FetchFailures)
            => health[e].ConsecutiveErrors = errsAtStart[e] + 1

\* C5: a status-200 response whose body cannot be decoded counts as a failed
\* tick: after three such ticks in a row the adapter is unhealthy.
C5_DecodeFailuresCount ==
    \A e \in DOMAIN clients :
        (workers[e].pc = "done" /\ decodeStreak[e] >= 3) => ~health[e].IsHealthy

\* C6: once a fetch of an adapter has succeeded, the adapter is healthy and its
\* count of consecutive errors is 0, whatever its health was before.
C6_SuccessResetsHealth ==
    \A e \in DOMAIN clients :
        (fetchResult[e] = "ok" /\ workers[e].pc \in {"send", "done"})
            => (health[e].IsHealthy /\ health[e].ConsecutiveErrors = 0)

C6_Witness ==
    \E e \in DOMAIN clients :
        /\ fetchResult[e] = "ok"
        /\ workers[e].pc = "done"
        /\ errsAtStart[e] >= 3
        /\ health[e].IsHealthy

\* C7: a request to an adapter is issued only when at least
\* 60 s / rate_limit_per_minute have passed since the previous request to it.
C7_MinimumInterval ==
    [][\A e \in DOMAIN clients :
          (workers[e].pc = "start" /\ workers'[e].pc # "start" /\ lastCall[e] # -1)
              => Now - lastCall[e] >= GetRateLimit(clients[e])]_vars

C9_Valid(k) == filterValidPrices(pricesBySymbol(allPrices, clients)[k])

C9_Within(valid) ==
    SelectSeq(valid, LAMBDA p : WithinDeviation(p, calculateMedianPrice(valid)))

C9_MoreThanHalfDropped(valid) ==
    /\ Len(valid) >= MinOutlierSample
    /\ 2 * (Len(valid) - Len(C9_Within(valid))) > Len(valid)

\* C9: when trimming would drop more than half of the entries of a pair, the
\* result is computed from the untrimmed entries: every exchange of the valid
\* entries contributes.
C9_RevertsToUntrimmed ==
    cyclePc = "calculated" =>
        \A k \in DOMAIN pricesBySymbol(allPrices, clients) :
            C9_MoreThanHalfDropped(C9_Valid(k)) =>
                /\ k \in DOMAIN vwapResults
                /\ vwapResults[k].ExchangeCount =
                       Cardinality({C9_Valid(k)[i].ExchangeID : i \in 1..Len(C9_Valid(k))})

\* C10: splitting the symbol that normalizeSymbol builds from BASE-QUOTE gives
\* back (BASE, QUOTE), for every symbol format and every quote of the list.
C10_RoundTrip ==
    psOut # <<>> => psOut.split = <<psIn[2], psIn[3]>>

\* the entries calculateVWAP combines for pair key k: valid, trimmed, one per exchange
C13_Entries(k) ==
    LET em == exchangeMap(CleanPrices(pricesBySymbol(allPrices, clients)[k]))
        o  == CHOOSE o \in MapOrders(CleanPrices(pricesBySymbol(allPrices, clients)[k])) : TRUE
    IN  [i \in 1..Len(o) |-> em[o[i]]]

C13_TotalWeight(es) == SumSeq([i \in 1..Len(es) |-> es[i].Volume * es[i].Weight])

C13_TotalVolume(es) == SumSeq([i \in 1..Len(es) |-> es[i].Volume])

\* C13: every VWAP result that is computed and stored has vwap_price > 0,
\* whatever the exchange weights are.
C13_VWAPPositive ==
    /\ \A k \in DOMAIN vwapResults :
          vwapResults[k].VWAPPrice.ip > 0 \/ vwapResults[k].VWAPPrice.f > 0
    /\ \A k \in DOMAIN vwapStore :
          vwapStore[k].vwap_price.ip > 0 \/ vwapStore[k].vwap_price.f > 0

\* C14: when the total weight of the combined entries is 0 and their volume is
\* positive, the result is the plain volume-weighted mean
\* sum(price x volume) / sum(volume), rounded to 8 places.
C14_FallsBackToVolumeMean ==
    cyclePc = "calculated" =>
        \A k \in DOMAIN vwapResults :
            LET es == C13_Entries(k)
            IN  (C13_TotalWeight(es) = 0 /\ C13_TotalVolume(es) > 0) =>
                    vwapResults[k].VWAPPrice =
                        DecRound8(DecDiv(
                            SumSeq([i \in 1..Len(es) |-> es[i].Price * es[i].Volume]),
                            C13_TotalVolume(es)))

\* C15: when the total weight of the combined entries is positive, the result
\* is sum(price x volume x weight) / sum(volume x weight), rounded to 8 places.
C15_WeightedMean ==
    cyclePc = "calculated" =>
        \A k \in DOMAIN vwapResults :
            LET es == C13_Entries(k)
            IN  C13_TotalWeight(es) > 0 =>
                    vwapResults[k].VWAPPrice =
                        DecRound8(DecDiv(
                            SumSeq([i \in 1..Len(es) |->
                                       es[i].Price * es[i].Volume * es[i].Weight]),
                            C13_TotalWeight(es)))

\* two exchanges with different prices and weights, and a quotient that rounds up
C15_Witness ==
    /\ cyclePc = "calculated"
    /\ \E k \in DOMAIN vwapResults :
          LET es == C13_Entries(k)
          IN  /\ C13_TotalWeight(es) > 0
              /\ Len(es) = 2
              /\ es[1].Price # es[2].Price
              /\ es[1].Weight # es[2].Weight
              /\ vwapResults[k].VWAPPrice.f = 66666667

\* C18: contributing_exchanges names no exchange twice and has exchange_count
\* elements, also when an exchange has several entries in the group.
C18_ContributingDeduplicated ==
    /\ \A k \in DOMAIN vwapResults :
          /\ Len(vwapResults[k].ContributingExchanges) = vwapResults[k].ExchangeCount
          /\ Cardinality(Range(vwapResults[k].ContributingExchanges))
                 = Len(vwapResults[k].ContributingExchanges)
    /\ \A k \in DOMAIN vwapStore :
          /\ Len(vwapStore[k].contributing_exchanges) = vwapStore[k].exchange_count
          /\ Cardinality(Range(vwapStore[k].contributing_exchanges))
                 = Len(vwapStore[k].contributing_exchanges)

C18_Witness ==
    /\ cyclePc = "calculated"
    /\ \E k \in DOMAIN vwapResults :
          /\ vwapResults[k].ExchangeCount = 2
          /\ Len(CleanPrices(pricesBySymbol(allPrices, clients)[k])) = 3

\* C19: the results of a cycle are a function of the collected batch: every run
\* of CalculateBatch on the same groups gives the same results, the sequence
\* contributing_exchanges included.
C19_Deterministic ==
    cyclePc = "calculated" =>
        \A ord \in OrderChoices(pricesBySymbol(allPrices, clients)) :
            CalculateBatch(pricesBySymbol(allPrices, clients), ord) = vwapResults

\* C16: one poll cycle yields at most one VWAP result per (base token, quote token):
\* two results whose price sources are tickers of the same pair of tokens are one
\* result, however the exchanges spell the pair.
C16_TokenPairs(k) ==
    LET bq == Split(k, "-")
    IN  {<<symbolMappings(src.ExchangeID, bq[1]), symbolMappings(src.ExchangeID, bq[2])>> :
            src \in Range(vwapResults[k].PriceSources)}
C16_OneResultPerTokenPair ==
    \A k1, k2 \in DOMAIN vwapResults :
        C16_TokenPairs(k1) \cap C16_TokenPairs(k2) # {} => k1 = k2

\* C20: the ticker sink accepts every row it is given: when storeTickers sends its
\* batch, each ticker of the cycle is a row of price_tickers, also one whose base or
\* quote token id is 0 (the batch is empty only when the send fails).
C20_SinkAcceptsEveryRow ==
    [][(cyclePc = "collected" /\ cyclePc' = "idle")
          => priceStore' \in {allPrices, <<>>}]_vars

\* C17: an entry with price <= 0, volume <= 0, price >= 1,000,000 or
\* volume >= 1,000,000,000 contributes to no VWAP result: the price sources of a
\* result, which its price, total_volume and contributing_exchanges are computed
\* from, are all inside these limits; and no parser output, in a worker, in the
\* channel or collected, has a non-positive price.
C17_Contributes(p) ==
    /\ p.Price > 0 /\ p.Price < 1000000
    /\ p.Volume > 0 /\ p.Volume < 1000000000
C17_Emitted ==
    UNION {Range(workers[e].batch) : e \in DOMAIN workers}
    \cup UNION {Range(pricesChan[i]) : i \in 1..Len(pricesChan)}
    \cup Range(allPrices)
C17_InvalidNeverContributes ==
    /\ \A t \in C17_Emitted : t.Price > 0
    /\ \A k \in DOMAIN vwapResults :
          LET r  == vwapResults[k]
              es == r.PriceSources
              ok == {p \in Range(pricesBySymbol(allPrices, clients)[k]) : C17_Contributes(p)}
              tw == SumSeq([i \in 1..Len(es) |-> es[i].Volume * es[i].Weight])
          IN  /\ Range(es) \subseteq ok
              /\ Range(r.ContributingExchanges) = {p.ExchangeID : p \in Range(es)}
              /\ r.TotalVolume = SumSeq([i \in 1..Len(es) |-> es[i].Volume])
              /\ tw > 0 =>
                    r.VWAPPrice = DecRound8(DecDiv(
                        SumSeq([i \in 1..Len(es) |-> es[i].Price * es[i].Volume * es[i].Weight]),
                        tw))
\* a result whose group held an entry outside the limits, in a cycle in which the
\* parser dropped the whole response of kucoin
C17_Witness ==
    /\ cyclePc = "calculated"
    /\ fetchResult["kucoin"] = "ok"
    /\ \A t \in Range(allPrices) : t.ExchangeID # "kucoin"
    /\ \E k \in DOMAIN vwapResults :
          \E p \in Range(pricesBySymbol(allPrices, clients)[k]) : ~C17_Contributes(p)

\* C11: a mapping that resolveTickerTokenIDs backfilled after a fallback (a row
\* written by AddSymbolMapping or AddTradingPair) has mapping_method = "symbol",
\* confidence_score = 0.5 and needs_verification = true.
C11_Backfilled(row) ==
    /\ row.mapping_method = "symbol"
    /\ row.confidence_score = 50
    /\ row.needs_verification = TRUE
C11_BackfillIsLowConfidence ==
    /\ \A k \in DOMAIN addsDone.symbols : C11_Backfilled(dbSymbols[k])
    /\ \A k \in DOMAIN addsDone.pairs : C11_Backfilled(dbPairs[k])

\* C12: once AddSymbolMapping or AddTradingPair has returned nil and no call of
\* RefreshCache is running, the cache maps the added key to the added token id(s).
C12_AddsAreInCache ==
    refresh.pc = "idle" =>
        /\ \A k \in DOMAIN addsDone.symbols :
              k \in DOMAIN symbolCache /\ symbolCache[k] = addsDone.symbols[k]
        /\ \A k \in DOMAIN addsDone.pairs :
              k \in DOMAIN pairCache /\ pairCache[k] = addsDone.pairs[k]

\* C22: a ticker leaves resolveTickerTokenIDs with both token ids set or with
\* neither: never with exactly one of BaseTokenID and QuoteTokenID non-zero.
C22_BothOrNeither ==
    (res.pc = "idle" /\ res.calls > 0) =>
        (res.ticker.BaseTokenID = 0 <=> res.ticker.QuoteTokenID = 0)

\* C23: once a ticker (exchange, raw symbol) has been resolved through a fallback,
\* a later resolution of the same ticker is answered by ResolveTradingPair from
\* pairCache, with the same token ids and without a query, whatever refreshes ran.
C23_LaterCallsHitPairCache ==
    [][(res.pc = "pair" /\ res' # res /\ PairKeyOf(res.ticker) \in DOMAIN res.resolved)
          => /\ PairKeyOf(res.ticker) \in DOMAIN pairCache
             /\ res'.pc = "idle"
             /\ res'.ticker.BaseTokenID = res.resolved[PairKeyOf(res.ticker)].BaseTokenID
             /\ res'.ticker.QuoteTokenID = res.resolved[PairKeyOf(res.ticker)].QuoteTokenID]_vars

\* C24: adding a mapping is idempotent: AddSymbolMapping (AddTradingPair) called
\* twice with the same arguments leaves the tables and the three caches as one call
\* does; a mapping that was added and is still held is left unchanged by adding it
\* again (between two calls of resolveTickerTokenIDs).
C24_TokenIDs == {1, 2, 3}
C25_FailedRefreshKeepsCaches ==
    [][refresh' # refresh =>
          IF refresh.pc = "swap"
          THEN /\ symbolCache' = refresh.newSymbolCache
               /\ pairCache' = refresh.newPairCache
               /\ normalizedCache' = refresh.newNormalizedCache
          ELSE UNCHANGED <<symbolCache, pairCache, normalizedCache>>]_vars
\* a call of RefreshCache has returned, and the caches are still empty although the
\* tables are seeded and no worker has run: the call failed
C25_Witness ==
    /\ refresh.pc = "idle"
    /\ refresh.runs > 0
    /\ res.calls = 0
    /\ dbSymbols # <<>> /\ dbPairs # <<>>
    /\ symbolCache = <<>> /\ pairCache = <<>> /\ normalizedCache = <<>>

\* cache accesses of the lock-level steps: the goroutine is about to read or to write
\* one of the three maps
C26_Reads(g) == gor[g].pc \in {"rs_read", "rs_normalized", "gt_read"}
C26_Writes(g) == gor[g].pc \in {"rs_write", "as_write"}

\* C26: every read of symbolCache, pairCache or normalizedCache is made by a
\* goroutine that holds the resolver's lock (as reader or writer), every write by
\* the goroutine that holds the write lock, and so no goroutine is at a cache access
\* while RefreshCache is between Lock and Unlock for the swap
C26_AccessesHoldTheLock ==
    /\ \A g \in DOMAIN gor :
          /\ C26_Reads(g) => (g \in mu.readers \/ mu.writer = g)
          /\ C26_Writes(g) => mu.writer = g
    /\ refresh.pc = "locked" =>
          /\ mu.writer = Refresher
          /\ \A g \in DOMAIN gor : ~C26_Reads(g) /\ ~C26_Writes(g)

\* C21: a ticker whose base or quote token id is unresolved (0) never contributes
\* to a VWAPResult of the poll cycle: no price source of a result is the price of
\* such a ticker.
C21_Unresolved(t) == t.BaseTokenID = 0 \/ t.QuoteTokenID = 0
C21_UnresolvedNeverContributes ==
    \A k \in DOMAIN vwapResults :
        \A p \in Range(vwapResults[k].PriceSources) :
            ~\E t \in Range(allPrices) :
                /\ C21_Unresolved(t)
                /\ t.ExchangeID = p.ExchangeID /\ t.Symbol = p.Symbol
                /\ t.Price = p.Price /\ t.Volume24h = p.Volume

\* the symbol the suffix loop of ParseSymbolPair works on, and whether it is reached
\* with a symbol that has no separator
C27_Symbol == ToUpper(FormatSplit(psOut.joined, psIn[1]).symbol)
C27_NoSeparator ==
    /\ psOut # <<>>
    /\ ~FormatSplit(psOut.joined, psIn[1]).done
    /\ ~Contains(psOut.joined, "-") /\ ~Contains(psOut.joined, "_")

\* C27: for a symbol without separator of which several quote currencies of the
\* list are suffixes, ParseSymbolPair returns the longest of them as quote and the
\* rest of the symbol as base (BTCBUSD is split at BUSD, not at USD).
C27_PeelsLongestSuffix ==
    C27_NoSeparator =>
        \A i \in 1..Len(psIn[4]) :
            HasSuffix(C27_Symbol, psIn[4][i]) =>
                /\ Len(psIn[4][i]) <= Len(psOut.split[2])
                /\ psOut.split[1] \o psOut.split[2] = C27_Symbol

\* fiat currencies and stablecoins, and the crypto quote currencies, of the lists
C28_Fiat == {DefaultQuoteCurrencies[i] : i \in 1..32}
C28_Crypto == {DefaultQuoteCurrencies[i] : i \in 33..38}
C28_FiatFirst(list) ==
    \A i, j \in 1..Len(list) : (list[i] \in C28_Crypto /\ list[j] \in C28_Fiat) => j < i
\* the ways to read the symbol as a crypto quote currency followed by a fiat one
C28_Splits ==
    {bq \in (C28_Crypto \cap Range(psIn[4])) \X (C28_Fiat \cap Range(psIn[4])) :
        bq[1] \o bq[2] = C27_Symbol}
C28_Shadowed(q) ==
    \E f \in (C28_Fiat \cap Range(psIn[4])) \ {q} : HasSuffix(C27_Symbol, f)

C29_Outliers == Range(det.outliers) \cup Range(det.stored)
\* the mapping method of the mapping that gave the outlier's price its token
C29_MethodOf(o) == dbSymbols[<<o.ExchangeID, o.via>>].mapping_method

C30_ShutdownTerminates ==
    /\ ctxDone ~> (loopPc = "stopped")
    /\ [][\A e \in DOMAIN clients :
             (ctxDone /\ workers[e].pc = "start" /\ workers'[e].pc # "start")
                => (workers'[e].pc = "failed" /\ fetchResult'[e] = "neterr")]_vars
\* the loop has stopped although the ticker never fired, after a poll in which a
\* request failed in the transport
C30_Witness ==
    /\ loopPc = "stopped"
    /\ ctxDone
    /\ ticks = 0 /\ tickerC = 0
    /\ \E e \in DOMAIN clients : fetchResult[e] = "neterr"

\* the valid entries of the group of pair key k
C31_Valid(k) == filterValidPrices(pricesBySymbol(allPrices, clients)[k])

C31_SumOfPrices(valid) == SumSeq([i \in 1..Len(valid) |-> valid[i].Price])

\* |price - mu| <= 0.10 x mu for mu = sum / n, in integers:
\* 10 x |n x price - sum| <= sum
C31_WithinTenPercent(p, valid) ==
    10 * Abs(Len(valid) * p.Price - C31_SumOfPrices(valid)) <= C31_SumOfPrices(valid)

C31_Kept(valid) == SelectSeq(valid, LAMBDA p : C31_WithinTenPercent(p, valid))

\* one entry per exchange, so that every entry left by the trim contributes
C31_OnePerExchange(valid) ==
    \A i, j \in 1..Len(valid) : valid[i].ExchangeID = valid[j].ExchangeID => i = j

C31_KeptRounded(valid) ==
    SelectSeq(valid, LAMBDA p : WithinDeviation(p, calculateMedianPrice(valid)))

C32_Of(k, e) == SelectSeq(C31_Valid(k), LAMBDA p : p.ExchangeID = e)

C32_LargestVolume(k, e) ==
    CHOOSE v \in {C32_Of(k, e)[i].Volume : i \in 1..Len(C32_Of(k, e))} :
        \A i \in 1..Len(C32_Of(k, e)) : C32_Of(k, e)[i].Volume <= v

\* C32: when an exchange has more than one valid entry in a group, no two of
\* its entries contribute to the result, and the one that contributes has the
\* largest volume among the exchange's valid entries.
C32_LargestVolumeContributes ==
    cyclePc = "calculated" =>
        \A k \in DOMAIN vwapResults : \A e \in Exchanges :
            Len(C32_Of(k, e)) > 1 =>
                LET srcs == {i \in 1..Len(vwapResults[k].PriceSources) :
                                vwapResults[k].PriceSources[i].ExchangeID = e}
                IN  /\ Cardinality(srcs) <= 1
                    /\ \A i \in srcs :
                          vwapResults[k].PriceSources[i].Volume = C32_LargestVolume(k, e)

\* one entry per exchange, the one with the larger volume, in the order in which
\* the exchanges first appear
RECURSIVE C33_FirstAppearance(_, _)
C33_FirstAppearance(valid, seen) ==
    IF valid = <<>> THEN <<>>
    ELSE IF Head(valid).ExchangeID \in seen THEN C33_FirstAppearance(Tail(valid), seen)
    ELSE <<Head(valid).ExchangeID>>
             \o C33_FirstAppearance(Tail(valid), seen \cup {Head(valid).ExchangeID})

C33_Deduplicated(valid) ==
    [i \in 1..Len(C33_FirstAppearance(valid, {})) |->
        exchangeMap(valid)[C33_FirstAppearance(valid, {})[i]]]

\* C33: the entries that contribute to a result are those left by trimming the
\* deduplicated set: the mean and the count of 3 are taken over one entry per
\* exchange.
C33_DeduplicationPrecedesTrim ==
    cyclePc = "calculated" =>
        \A k \in DOMAIN vwapResults :
            Range(vwapResults[k].PriceSources)
                = Range(removeOutliers(C33_Deduplicated(C31_Valid(k))))

\* C34: total_volume of a result is the sum of the volumes of the deduplicated
\* valid entries of its group, the entries removed by the trim included.
C34_TotalVolumeUntrimmed ==
    cyclePc = "calculated" =>
        \A k \in DOMAIN vwapResults :
            vwapResults[k].TotalVolume
                = SumSeq([i \in 1..Len(C33_Deduplicated(C31_Valid(k))) |->
                             C33_Deduplicated(C31_Valid(k))[i].Volume])

\* C35: XBT, XXBT and tBTC, in any letter case, normalize to BTC, and a token
\* symbol normalizes to itself.
C35_NormalizesVendorSpellings ==
    psOut # <<>> =>
        /\ ToUpper(psIn) \in {ToUpper(s) : s \in VendorSpellings} =>
               psOut.normalized = <<"B", "T", "C">>
        /\ psIn \in TokenSymbols => psOut.normalized = psIn

\* C36: once the context is cancelled, the poll loop leaves its select only
\* by returning: it enters no poll cycle, also when a tick is waiting in the
\* ticker's channel.
C36_NoCycleAfterShutdown ==
    [][(ctxDone /\ loopPc = "select") => loopPc' \in {"select", "stopped"}]_vars

\* the tickers of exchange e among the collected ones, as the parser built them
C37_Collected(e) ==
    LET own == SelectSeq(allPrices, LAMBDA t : t.ExchangeID = e)
    IN  [i \in 1..Len(own) |-> [own[i] EXCEPT !.BaseTokenID = 0, !.QuoteTokenID = 0]]

\* C37: a worker that is about to send finds the channel open and not full;
\* the channel is closed only when every worker has returned; the collector
\* ends, and then holds the batch of every worker that succeeded, once, and
\* nothing of the others.
C37_CollectorTerminates ==
    /\ [](\A e \in DOMAIN clients :
             workers[e].pc = "send" =>
                 ~chanClosed /\ Len(pricesChan) < Cardinality(DOMAIN clients))
    /\ [](chanClosed => \A e \in DOMAIN clients : workers[e].pc \in {"idle", "done"})
    /\ [](cyclePc = "collected" =>
             \A e \in DOMAIN clients :
                 IF fetchResult[e] = "ok"
                 THEN \E raw \in RawBatches(e) : C37_Collected(e) = ParseTickers(raw, e)
                 ELSE C37_Collected(e) = <<>>)
    /\ (cyclePc = "collect") ~> (cyclePc = "collected")

\* every worker has delivered and the channel is full when it is closed
C37_Witness ==
    /\ cyclePc = "collect"
    /\ chanClosed
    /\ Len(pricesChan) = Cardinality(DOMAIN clients)
    /\ \A e \in DOMAIN clients : fetchResult[e] = "ok"

\* the batches handed to InsertTrades, one after the other
RECURSIVE C38_Flatten(_)
C38_Flatten(batches) ==
    IF batches = <<>> THEN <<>> ELSE Head(batches) \o C38_Flatten(Tail(batches))

C38_Occurrences(trade, trades) ==
    Cardinality({i \in 1..Len(trades) : trades[i] = trade})

\* the goroutines that run flushBatch: the timer, Stop, and those addToBatch started
C38_FlushersOf(i) ==
    <<i.timer, i.stop>> \o i.flushers

\* C38: under every interleaving of the flushes started by a full batch, by
\* the timer and by Stop, no trade is in more than one batch handed to
\* InsertTrades (nor twice in one), and a flush that finds trades takes all
\* of them and leaves the pending batch empty.
C38_AtMostOneBatch ==
    /\ [](\A t \in 1..ing.received : C38_Occurrences(t, C38_Flatten(ing.inserted)) <= 1)
    /\ [][\A k \in 1..Len(C38_FlushersOf(ing)) :
             (/\ C38_FlushersOf(ing)[k].pc = "flush"
              /\ C38_FlushersOf(ing')[k].pc = "insert")
                 => (/\ C38_FlushersOf(ing')[k].batch = ing.tradeBatch
                     /\ ing'.tradeBatch = <<>>)]_vars

\* a full batch was flushed by the goroutine addToBatch started, and the rest by Stop
C38_Witness ==
    /\ Len(ing.inserted) = 2
    /\ Len(ing.inserted[1]) = MaxBatch
    /\ ing.stop.pc = "returned"
    /\ \E i \in 1..Len(ing.flushers) : ing.flushers[i].pc = "done"
    /\ Len(C38_Flatten(ing.inserted)) = ing.received

\* C39: reconnectAttempts is 0 while a connection is established, and the
\* ingester gives up only after more than 10 attempts to connect have failed
\* in a row (failedInARow: Dial failures since the last successful Dial).
C39_CountsConsecutiveFailures ==
    /\ ing.conn.pc \in {"reading", "read", "add"} => ing.reconnectAttempts = 0
    /\ ing.conn.pc = "gaveup" => ing.failedInARow > maxReconnectAttempts

\* the trades addToBatch has appended
C40_Accepted ==
    {t \in 1..ing.received : ~(ing.conn.pc = "add" /\ ing.conn.trade = t)}

\* C40: once Stop has returned from a running ingester, the pending batch is
\* empty and every trade appended so far has been handed to InsertTrades.
C40_EmptyAfterStop ==
    ing.stop.pc = "returned" =>
        /\ ing.tradeBatch = <<>>
        /\ C40_Accepted \subseteq Range(C38_Flatten(ing.inserted))

====
